---------------------------- MODULE Spec2Model ----------------------------
(***************************************************************************)
(* Model of app/core/cache.py: ImageAnalysisCache, the thread-safe LRU     *)
(* cache with TTL that sits in front of the image analysis pipeline.       *)
(*                                                                         *)
(* The OrderedDict _store is a sequence of entries, head = least recently  *)
(* used, tail = most recently used.  An entry is (key, timestamp, result)  *)
(* where result is a reference to a dict object on the heap, so that       *)
(* copy.deepcopy and aliasing are observable.  Every statement inside a    *)
(* `with self._lock:` block is one step of the calling thread.  A caller   *)
(* blocked on the lock is a caller whose entry action is not enabled.      *)
(***************************************************************************)
EXTENDS Integers, Sequences, FiniteSets, TLC

\* ------------------------------------------------------------ bounds
NThreads == 2      \* concurrent callers
NKeys    == 3      \* distinct cache keys
NVals    == 2      \* distinct dict contents
MaxTime  == 2      \* readings of time.monotonic(): 0..MaxTime
MaxCap   == 2      \* max_size is drawn from 0..MaxCap
MaxTtl   == 1      \* ttl_seconds is drawn from 0..MaxTtl

Threads == 1..NThreads
Keys    == 1..NKeys
Vals    == 1..NVals
\* object ids: one per key (the stored copy), one per thread (the caller's
\* dict), and spares so that allocation never runs dry
Objs    == 1..(NKeys + 2 * NThreads + 1)
KeySlot(k)    == k
ThreadSlot(t) == NKeys + t

VARIABLES
  store,     \* self._store: sequence of [key, ts, ref], head is the LRU entry
  lock,      \* self._lock: 0 when free, else the thread holding it
  max_size,  \* self._max_size
  ttl,       \* self._ttl
  now,       \* the current reading of time.monotonic()
  heap,      \* heap[o]: content of dict object o, 0 when o is not allocated
  pc,        \* pc[t]: the statement thread t executes next
  key,       \* key[t]: the key argument of t's call
  held,      \* held[t]: the dict object the caller owns (0: none)
  loc,       \* loc[t]: get's locals (timestamp, result)
  ret,       \* ret[t]: the value the call returns
  snap,      \* history: the store and argument as the lock was acquired, the clock as read
  last,      \* history: the last completed call
  everSet,   \* history: the keys set() has been called with
  req,       \* req[r]: the request handler r of app/api/image_analysis.py and its locals
  call,      \* a call of one of the module-level functions: its arguments and its result
  settings   \* app/config.py: the settings object

vars == <<store, lock, max_size, ttl, now, heap, pc, key, held, loc, ret,
          snap, last, everSet, req, call, settings>>

\* ------------------------------------------------------------ values
None      == [kind |-> "none", v |-> 0]
ObjRet(o) == [kind |-> "obj", v |-> o]
IntRet(n) == [kind |-> "int", v |-> n]
KeyError  == [kind |-> "KeyError", v |-> 0]

NoLoc  == [timestamp |-> 0, result |-> 0]
NoSnap == [t |-> -1, store |-> <<>>, val |-> 0]
NoLast == [t |-> -1, key |-> 0, val |-> 0, op |-> "none", hit |-> FALSE]

\* ------------------------------------------------------------ OrderedDict
KeysOf(s) == [i \in DOMAIN s |-> s[i].key]

Contains(s, k) == \E i \in DOMAIN s : s[i].key = k

IndexOf(s, k) == CHOOSE i \in DOMAIN s : s[i].key = k

GetItem(s, k) == s[IndexOf(s, k)]

Remove(s, i) == SubSeq(s, 1, i - 1) \o SubSeq(s, i + 1, Len(s))

\* a del that takes every entry past its ttl along
DelStale(s, k) ==
  LET Kept(e) == e.key # k /\ ~(now - e.ts > ttl) IN SelectSeq(s, Kept)

\* del d[k]
DelItem(s, k) == IF Contains(s, k) THEN Remove(s, IndexOf(s, k)) ELSE s

MoveToEndNoop(s, k) == s

\* move_to_end(k) that also stamps the entry anew
MoveToEndRefreshed(s, k) ==
  IF Contains(s, k)
    THEN Append(Remove(s, IndexOf(s, k)), [GetItem(s, k) EXCEPT !.ts = @ + 1])
  ELSE s

\* d.move_to_end(k)
MoveToEnd(s, k) ==
  IF Contains(s, k) THEN Append(Remove(s, IndexOf(s, k)), GetItem(s, k)) ELSE s

SetItemKeepOld(s, k, e) == IF Contains(s, k) THEN s ELSE Append(s, e)

AppendItem(s, k, e) == Append(s, e)

\* d[k] = e: an existing key keeps its position, a new key goes to the end
SetItem(s, k, e) ==
  IF Contains(s, k) THEN [s EXCEPT ![IndexOf(s, k)] = e] ELSE Append(s, e)

PopLast(s) == SubSeq(s, 1, Len(s) - 1)

\* d.popitem(last=False)
PopFirst(s) == Tail(s)

ClearButLast(s) == IF s = <<>> THEN s ELSE <<s[Len(s)]>>

\* d.clear()
ClearStore(s) == <<>>

\* ------------------------------------------------------------ conditions
ExpiredAtTtl(t, timestamp, limit) == t - timestamp >= limit

ExpiredLate(t, timestamp, limit) == t - timestamp > limit + 1

\* time.monotonic() - timestamp > self._ttl
Expired(t, timestamp, limit) == t - timestamp > limit

OverCapacityByTwo(s, m) == Len(s) > m + 1

\* a capacity of 0 taken to mean no limit
OverCapacityUnlessZero(s, m) == m > 0 /\ Len(s) > m

\* len(self._store) > self._max_size
OverCapacity(s, m) == Len(s) > m

LockIgnored == TRUE

StillLocked(holder) == holder

\* the end of a `with self._lock:` block: the lock is free again
Unlock(holder) == 0

\* threading.Lock: acquire() returns only while the lock is free
LockAvailable == lock = 0

\* ------------------------------------------------------------ heap
\* a fresh object: the preferred id when it is free, else the least free id
\* (ids are opaque, so which free id is taken is unobservable)
Alloc(h, pref) ==
  IF h[pref] = 0 THEN pref
  ELSE CHOOSE o \in Objs : h[o] = 0 /\ \A p \in Objs : h[p] = 0 => o <= p

SameObject(h, o, pref) == o

\* copy.deepcopy(o): the reference of the copy, a fresh object
DeepCopyRef(h, o, pref) == Alloc(h, pref)

CopyOfDefault(h, o) == 1

\* copy.deepcopy(o): the content of the copy
DeepCopyVal(h, o) == h[o]

StoreRefs(s) == {s[i].ref : i \in DOMAIN s}

\* the objects some variable still refers to; the rest is garbage
Live(s, hd, lc, rt) ==
  StoreRefs(s) \cup {hd[t] : t \in Threads} \cup {lc[t].result : t \in Threads}
    \cup {rt[t].v : t \in {u \in Threads : rt[u].kind = "obj"}}

Collect(h, live) == [o \in Objs |-> IF o \in live THEN h[o] ELSE 0]

\* the store with every reference replaced by the content it refers to
View(s, h) == [i \in DOMAIN s |-> [key |-> s[i].key, val |-> h[s[i].ref], ts |-> s[i].ts]]

\* ------------------------------------------------------------ initial state
\* app/config.py: Settings()
Settings == [CACHE_ENABLED |-> TRUE]

\* ImageAnalysisCache.__init__
Init ==
  /\ store = <<>>
  /\ lock = 0
  /\ max_size \in 0..MaxCap
  /\ ttl \in 0..MaxTtl
  /\ now = 0
  /\ heap = [o \in Objs |-> 0]
  /\ pc = [t \in Threads |-> "idle"]
  /\ key = [t \in Threads |-> 0]
  /\ held = [t \in Threads |-> 0]
  /\ loc = [t \in Threads |-> NoLoc]
  /\ ret = [t \in Threads |-> None]
  /\ snap = NoSnap
  /\ last = NoLast
  /\ everSet = {}
  /\ req = <<>>
  /\ call = <<>>
  /\ settings = Settings

\* ------------------------------------------------------------ the callers
\* the monotonic clock advances
Tick ==
  /\ now < MaxTime
  /\ now' = now + 1
  /\ UNCHANGED <<req, call, settings, store, lock, max_size, ttl, heap, pc, key, held, loc, ret, snap, last, everSet>>

\* a caller builds a result dict
NewDict(t, v) ==
  /\ pc[t] = "idle"
  /\ held[t] = 0
  /\ held' = [held EXCEPT ![t] = Alloc(heap, ThreadSlot(t))]
  /\ heap' = [heap EXCEPT ![Alloc(heap, ThreadSlot(t))] = v]
  /\ UNCHANGED <<req, call, settings, store, lock, max_size, ttl, now, pc, key, loc, ret, snap, last, everSet>>

\* a caller changes a field of the dict it owns
Mutate(t, v) ==
  /\ pc[t] = "idle"
  /\ held[t] # 0
  /\ heap[held[t]] # v
  /\ heap' = [heap EXCEPT ![held[t]] = v]
  /\ UNCHANGED <<req, call, settings, store, lock, max_size, ttl, now, pc, key, held, loc, ret, snap, last, everSet>>

\* ------------------------------------------------------------ entering and leaving
\* a call of a cache method up to and including `with self._lock:`
Enter(t, label, k, hd) ==
  /\ pc[t] = "idle"
  /\ LockAvailable
  /\ lock' = t
  /\ pc' = [pc EXCEPT ![t] = label]
  /\ key' = [key EXCEPT ![t] = k]
  /\ held' = hd
  /\ heap' = Collect(heap, Live(store, hd, loc, ret))
  /\ snap' = [t |-> -1,
              store |-> View(store, heap),
              val |-> IF label = "s141" THEN heap[held[t]] ELSE 0]
  /\ UNCHANGED <<req, call, settings, store, max_size, ttl, now, loc, ret, last, everSet>>

\* x = cache.get(k): the variable that receives the result is rebound
Get112(t, k) == Enter(t, "g113", k, [held EXCEPT ![t] = 0])

\* cache.set(k, x)
Set140(t, k) == held[t] # 0 /\ Enter(t, "s141", k, held)

\* cache.clear()
Clear150(t) == Enter(t, "c151", 0, held)

\* cache.size
Size156(t) == Enter(t, "z157", 0, held)

OpOf(label) ==
  CASE label = "g_rel" -> "get"
    [] label = "s_rel" -> "set"
    [] label = "c_rel" -> "clear"
    [] label = "z_rel" -> "size"

\* the end of the `with self._lock:` block and the return to the caller
Release(t) ==
  /\ pc[t] \in {"g_rel", "s_rel", "c_rel", "z_rel"}
  /\ lock' = Unlock(lock)
  /\ pc' = [pc EXCEPT ![t] = "idle"]
  /\ key' = [key EXCEPT ![t] = 0]
  /\ loc' = [loc EXCEPT ![t] = NoLoc]
  /\ ret' = [ret EXCEPT ![t] = None]
  /\ held' = [held EXCEPT ![t] = IF ret[t].kind = "obj" THEN ret[t].v ELSE held[t]]
  /\ heap' = Collect(heap, Live(store, held', loc', ret'))
  /\ snap' = NoSnap
  /\ last' = [t |-> IF pc[t] = "s_rel" THEN snap.t ELSE -1, key |-> key[t],
              val |-> snap.val,
              op |-> OpOf(pc[t]),
              hit |-> ret[t].kind = "obj"]
  /\ everSet' = IF pc[t] = "s_rel" THEN everSet \cup {key[t]} ELSE everSet
  /\ UNCHANGED <<req, call, settings, store, max_size, ttl, now>>

\* ------------------------------------------------------------ get
\* if key not in self._store: return None
Get113(t) ==
  /\ pc[t] = "g113"
  /\ IF Contains(store, key[t])
       THEN pc' = [pc EXCEPT ![t] = "g115"] /\ ret' = ret
       ELSE pc' = [pc EXCEPT ![t] = "g_rel"] /\ ret' = [ret EXCEPT ![t] = None]
  /\ UNCHANGED <<req, call, settings, store, lock, max_size, ttl, now, heap, key, held, loc, snap, last, everSet>>

\* timestamp, result = self._store[key]
Get115(t) ==
  /\ pc[t] = "g115"
  /\ IF Contains(store, key[t])
       THEN /\ loc' = [loc EXCEPT ![t] = [timestamp |-> GetItem(store, key[t]).ts,
                                          result |-> GetItem(store, key[t]).ref]]
            /\ pc' = [pc EXCEPT ![t] = "g116"]
            /\ ret' = ret
       ELSE /\ loc' = loc
            /\ pc' = [pc EXCEPT ![t] = "g_rel"]
            /\ ret' = [ret EXCEPT ![t] = KeyError]
  /\ UNCHANGED <<req, call, settings, store, lock, max_size, ttl, now, heap, key, held, snap, last, everSet>>

\* if time.monotonic() - timestamp > self._ttl:
Get116(t) ==
  /\ pc[t] = "g116"
  /\ pc' = [pc EXCEPT ![t] = IF Expired(now, loc[t].timestamp, ttl) THEN "g118" ELSE "g121"]
  /\ snap' = [snap EXCEPT !.t = now]
  /\ UNCHANGED <<req, call, settings, store, lock, max_size, ttl, now, heap, key, held, loc, ret, last, everSet>>

\* del self._store[key]; return None
Get118(t) ==
  /\ pc[t] = "g118"
  /\ store' = DelItem(store, key[t])
  /\ ret' = [ret EXCEPT ![t] = IF Contains(store, key[t]) THEN None ELSE KeyError]
  /\ pc' = [pc EXCEPT ![t] = "g_rel"]
  /\ loc' = [loc EXCEPT ![t] = NoLoc]
  /\ heap' = Collect(heap, Live(store', held, loc', ret'))
  /\ UNCHANGED <<req, call, settings, lock, max_size, ttl, now, key, held, snap, last, everSet>>

\* self._store.move_to_end(key)
Get121(t) ==
  /\ pc[t] = "g121"
  /\ IF Contains(store, key[t])
       THEN /\ store' = MoveToEnd(store, key[t])
            /\ pc' = [pc EXCEPT ![t] = "g122"]
            /\ ret' = ret
       ELSE /\ store' = store
            /\ pc' = [pc EXCEPT ![t] = "g_rel"]
            /\ ret' = [ret EXCEPT ![t] = KeyError]
  /\ UNCHANGED <<req, call, settings, lock, max_size, ttl, now, heap, key, held, loc, snap, last, everSet>>

\* return copy.deepcopy(result)
Get122(t) ==
  /\ pc[t] = "g122"
  /\ LET o == DeepCopyRef(heap, loc[t].result, ThreadSlot(t)) IN
       /\ ret' = [ret EXCEPT ![t] = ObjRet(o)]
       /\ loc' = [loc EXCEPT ![t] = NoLoc]
       /\ heap' = Collect([heap EXCEPT ![o] = DeepCopyVal(heap, loc[t].result)],
                          Live(store, held, loc', ret'))
  /\ pc' = [pc EXCEPT ![t] = "g_rel"]
  /\ UNCHANGED <<req, call, settings, store, lock, max_size, ttl, now, key, held, snap, last, everSet>>

\* ------------------------------------------------------------ set
\* if key in self._store:
Set141(t) ==
  /\ pc[t] = "s141"
  /\ pc' = [pc EXCEPT ![t] = IF Contains(store, key[t]) THEN "s142" ELSE "s143"]
  /\ UNCHANGED <<req, call, settings, store, lock, max_size, ttl, now, heap, key, held, loc, ret, snap, last, everSet>>

\* self._store.move_to_end(key)
Set142(t) ==
  /\ pc[t] = "s142"
  /\ store' = MoveToEnd(store, key[t])
  /\ pc' = [pc EXCEPT ![t] = "s143"]
  /\ UNCHANGED <<req, call, settings, lock, max_size, ttl, now, heap, key, held, loc, ret, snap, last, everSet>>

\* self._store[key] = (time.monotonic(), copy.deepcopy(result))
\* (the object the assignment replaces dies in this step, so its id may be
\* taken by the copy unless something else still refers to it)
Set143(t) ==
  /\ pc[t] = "s143"
  /\ LET h0 == Collect(heap, Live(DelItem(store, key[t]), held, loc, ret))
         o  == DeepCopyRef(h0, held[t], KeySlot(key[t]))
     IN /\ store' = SetItem(store, key[t], [key |-> key[t], ts |-> now, ref |-> o])
        /\ heap' = Collect([heap EXCEPT ![o] = DeepCopyVal(heap, held[t])],
                           Live(store', held, loc, ret))
  /\ snap' = [snap EXCEPT !.t = now]
  /\ pc' = [pc EXCEPT ![t] = "s145"]
  /\ UNCHANGED <<req, call, settings, lock, max_size, ttl, now, key, held, loc, ret, last, everSet>>

\* if len(self._store) > self._max_size:
Set145(t) ==
  /\ pc[t] = "s145"
  /\ pc' = [pc EXCEPT ![t] = IF OverCapacity(store, max_size) THEN "s146" ELSE "s_rel"]
  /\ UNCHANGED <<req, call, settings, store, lock, max_size, ttl, now, heap, key, held, loc, ret, snap, last, everSet>>

\* self._store.popitem(last=False)
Set146(t) ==
  /\ pc[t] = "s146"
  /\ store' = PopFirst(store)
  /\ heap' = Collect(heap, Live(store', held, loc, ret))
  /\ pc' = [pc EXCEPT ![t] = "s_rel"]
  /\ UNCHANGED <<req, call, settings, lock, max_size, ttl, now, key, held, loc, ret, snap, last, everSet>>

\* ------------------------------------------------------------ clear, size
\* self._store.clear()
Clear151(t) ==
  /\ pc[t] = "c151"
  /\ store' = ClearStore(store)
  /\ heap' = Collect(heap, Live(store', held, loc, ret))
  /\ pc' = [pc EXCEPT ![t] = "c_rel"]
  /\ UNCHANGED <<req, call, settings, lock, max_size, ttl, now, key, held, loc, ret, snap, last, everSet>>

\* return len(self._store)
Size157(t) ==
  /\ pc[t] = "z157"
  /\ ret' = [ret EXCEPT ![t] = IntRet(Len(store))]
  /\ pc' = [pc EXCEPT ![t] = "z_rel"]
  /\ UNCHANGED <<req, call, settings, store, lock, max_size, ttl, now, heap, key, held, loc, snap, last, everSet>>

\* ------------------------------------------------------------ specification
Next ==
  \/ Tick
  \/ \E t \in Threads, v \in Vals : NewDict(t, v)
  \/ \E t \in Threads, v \in Vals : Mutate(t, v)
  \/ \E t \in Threads, k \in Keys : Get112(t, k)
  \/ \E t \in Threads, k \in Keys : Set140(t, k)
  \/ \E t \in Threads : Clear150(t)
  \/ \E t \in Threads : Size156(t)
  \/ \E t \in Threads : Release(t)
  \/ \E t \in Threads : Get113(t)
  \/ \E t \in Threads : Get115(t)
  \/ \E t \in Threads : Get116(t)
  \/ \E t \in Threads : Get118(t)
  \/ \E t \in Threads : Get121(t)
  \/ \E t \in Threads : Get122(t)
  \/ \E t \in Threads : Set141(t)
  \/ \E t \in Threads : Set142(t)
  \/ \E t \in Threads : Set143(t)
  \/ \E t \in Threads : Set145(t)
  \/ \E t \in Threads : Set146(t)
  \/ \E t \in Threads : Clear151(t)
  \/ \E t \in Threads : Size157(t)

Spec == Init /\ [][Next]_vars

\* ------------------------------------------------------------ a call as one step
\* get(k) run without interruption on the store s at clock reading t
SeqGet(s, k, t, limit) ==
  IF ~Contains(s, k) THEN [store |-> s, ret |-> 0]
  ELSE IF Expired(t, GetItem(s, k).ts, limit)
         THEN [store |-> DelItem(s, k), ret |-> 0]
         ELSE [store |-> MoveToEnd(s, k), ret |-> GetItem(s, k).val]

\* set(k, v) run without interruption on the store s at clock reading t
SeqSet(s, k, v, t, m) ==
  LET s1 == IF Contains(s, k) THEN MoveToEnd(s, k) ELSE s
      s2 == SetItem(s1, k, [key |-> k, val |-> v, ts |-> t])
  IN IF OverCapacity(s2, m) THEN PopFirst(s2) ELSE s2

\* ------------------------------------------------------------ vocabulary of the claims
InCall(t)  == pc[t] # "idle"
SetPcs     == {"s141", "s142", "s143", "s145", "s146", "s_rel"}
Now0       == View(store, heap)
Absent(t)  == ret[t] = None
Present(t) == ret[t].kind = "obj"
RetVal(t)  == IF ret[t].kind = "obj" THEN heap[ret[t].v] ELSE 0
Without(s, k) == LET Other(e) == e.key # k IN SelectSeq(s, Other)
Entry(k, t, v) == [key |-> k, val |-> v, ts |-> t]
NoDuplicateKey(s) == \A i, j \in DOMAIN s : s[i].key = s[j].key => i = j

\* ------------------------------------------------------------ C1
MutualExclusion ==
  /\ Cardinality({t \in Threads : InCall(t)}) <= 1
  /\ \A t \in Threads : InCall(t) => lock = t
  /\ lock # 0 => InCall(lock)

Linearizable ==
  \A t \in Threads :
    /\ ret[t].kind # "KeyError"
    /\ pc[t] = "g_rel" =>
         /\ Now0 = SeqGet(snap.store, key[t], snap.t, ttl).store
         /\ RetVal(t) = SeqGet(snap.store, key[t], snap.t, ttl).ret
         /\ Present(t) <=> SeqGet(snap.store, key[t], snap.t, ttl).ret # 0
    /\ pc[t] = "s_rel" =>
         /\ Now0 = SeqSet(snap.store, key[t], snap.val, snap.t, max_size)
         /\ Absent(t)
    /\ pc[t] = "c_rel" => Now0 = <<>> /\ Absent(t)
    /\ pc[t] = "z_rel" => Now0 = snap.store /\ ret[t] = IntRet(Len(snap.store))
    /\ pc[t] \in {"g113", "s141", "c151", "z157"} => Now0 = snap.store

\* C1: under any interleaving of concurrent get, set, clear and size calls at
\* most one caller is inside a critical section, and every call takes effect
\* atomically: when it leaves, the store and the returned value are those of
\* the call run alone on the store it found when it took the lock (so the
\* calls are equivalent to their sequential ordering by lock acquisition), and
\* no key is stored twice.
C1_Linearizable == MutualExclusion /\ NoDuplicateKey(store) /\ Linearizable

\* a get that hit while the other caller holds a dict and a set came before
C1_Witness ==
  /\ pc[2] = "g_rel" /\ Present(2) /\ lock = 2
  /\ pc[1] = "idle" /\ held[1] # 0
  /\ last.op = "set" /\ Len(store) = 2

\* ------------------------------------------------------------ C2
\* C2: whenever no set call is in progress the number of stored entries is at
\* most max_size (max_size >= 0).
C2_SizeBound ==
  (\A t \in Threads : pc[t] \notin SetPcs) => Len(store) <= max_size

\* the cache is full after a set, and more keys were set than it can hold
C2_Witness ==
  /\ \A t \in Threads : pc[t] \notin SetPcs
  /\ last.op = "set" /\ max_size >= 1
  /\ Len(store) = max_size /\ Cardinality(everSet) > max_size

\* ------------------------------------------------------------ C3
\* C3: when set(k, v) inserts a key that is not present and the cache already
\* holds max_size entries (max_size >= 1), the store it leaves is the one it
\* found without its head (the least recently used entry), every other entry
\* unchanged and in the same order, followed by the new entry; so with
\* max_size = 2, set A, set B, set C leaves exactly B and C.
C3_EvictsLru ==
  \A t \in Threads :
    (/\ pc[t] = "s_rel"
     /\ max_size >= 1
     /\ ~Contains(snap.store, key[t])
     /\ Len(snap.store) = max_size)
    => /\ Now0 = Tail(snap.store) \o <<Entry(key[t], snap.t, snap.val)>>
       /\ Len(store) = max_size
       /\ ~Contains(store, snap.store[1].key)

\* max_size = 2, the store held A, B and set(C) leaves B, C
C3_Witness ==
  \E t \in Threads :
    /\ pc[t] = "s_rel" /\ max_size = 2 /\ key[t] = 3
    /\ KeysOf(snap.store) = <<1, 2>>
    /\ KeysOf(store) = <<2, 3>>

\* ------------------------------------------------------------ C4
\* C4: a successful get(k) leaves k at the most-recently-used end with every
\* other entry in its place and nothing else changed; and when the call that
\* follows it is a set that evicts (max_size >= 2), the evicted key is not k:
\* with max_size = 2, set A, set B, get A (hit), set C evicts B and keeps A, C.
C4_HitIsMru ==
  \A t \in Threads :
    /\ (pc[t] = "g_rel" /\ Present(t)) =>
         /\ Now0[Len(store)] = GetItem(snap.store, key[t])
         /\ Without(Now0, key[t]) = Without(snap.store, key[t])
         /\ Len(store) = Len(snap.store)
    /\ (/\ pc[t] = "s_rel"
        /\ last.op = "get" /\ last.hit
        /\ max_size >= 2
        /\ ~Contains(snap.store, key[t])
        /\ Len(snap.store) = max_size) =>
         /\ snap.store[1].key # last.key
         /\ ~Contains(store, snap.store[1].key)
         /\ Contains(store, last.key)
         /\ Contains(store, key[t])

\* max_size = 2: after get A hit on (B, A), set C leaves (A, C)
C4_Witness ==
  \E t \in Threads :
    /\ pc[t] = "s_rel" /\ max_size = 2 /\ key[t] = 3
    /\ last.op = "get" /\ last.hit /\ last.key = 1
    /\ KeysOf(snap.store) = <<2, 1>>
    /\ KeysOf(store) = <<1, 3>>

\* ------------------------------------------------------------ C5
\* C5: get(k) on an entry whose age at the clock reading is strictly greater
\* than ttl returns absent and removes exactly that entry (every other entry
\* stays, the size drops by one); an entry whose age is at most ttl is
\* returned; a get(k) that directly follows a get(k) that found nothing is
\* absent too.  With ttl = 0 every entry of nonzero age is absent.
C5_ExpiryOnRead ==
  \A t \in Threads :
    (pc[t] = "g_rel") =>
      /\ (Contains(snap.store, key[t])
          /\ snap.t - GetItem(snap.store, key[t]).ts > ttl) =>
           /\ Absent(t)
           /\ Now0 = Without(snap.store, key[t])
           /\ Len(store) = Len(snap.store) - 1
           /\ ~Contains(store, key[t])
      /\ (Contains(snap.store, key[t])
          /\ snap.t - GetItem(snap.store, key[t]).ts <= ttl) =>
           /\ Present(t)
           /\ RetVal(t) = GetItem(snap.store, key[t]).val
      /\ (last.op = "get" /\ ~last.hit /\ last.key = key[t]) => Absent(t)

\* an entry of age 2 under ttl = 1 is removed by the read, its neighbour stays
C5_Witness ==
  \E t \in Threads :
    /\ pc[t] = "g_rel" /\ ttl = 1 /\ Absent(t)
    /\ Len(snap.store) = 2 /\ Len(store) = 1
    /\ Contains(snap.store, key[t]) /\ ~Contains(store, key[t])
    /\ snap.t - GetItem(snap.store, key[t]).ts = 2

C7_RoundTrip ==
  \A t \in Threads :
    (pc[t] = "g_rel") =>
      /\ (/\ max_size >= 1
          /\ last.op = "set" /\ last.key = key[t]
          /\ snap.t - last.t <= ttl) => (Present(t) /\ RetVal(t) = last.val)
      /\ key[t] \notin everSet => Absent(t)

\* set(k, 2) on a key holding 1, then get(k) returns 2
C7_Witness ==
  \E t \in Threads :
    /\ pc[t] = "g_rel" /\ Present(t) /\ RetVal(t) = 2
    /\ last.op = "set" /\ last.key = key[t] /\ last.val = 2
    /\ Len(store) = 2

\* ------------------------------------------------------------ C8
HeldVal(t) == IF held[t] = 0 THEN 0 ELSE heap[held[t]]

\* C8: stored snapshots are never aliased: when a caller mutates the dict it
\* owns (the value it passed to set, or the value get returned to it), the
\* content of every stored entry and of every other caller's dict is
\* unchanged, so later gets return what they would have returned.
C8_NoAliasing ==
  [][\A t \in Threads, v \in Vals :
       Mutate(t, v) =>
         /\ View(store', heap') = View(store, heap)
         /\ \A u \in Threads \ {t} : HeldVal(u)' = HeldVal(u)]_vars

\* both callers hold a copy returned by get(k); one has mutated its copy, the
\* other copy and the stored entry still hold the value that was set
C8_Witness ==
  /\ pc[1] = "idle" /\ pc[2] = "idle"
  /\ last.op = "get" /\ last.hit
  /\ Contains(store, last.key)
  /\ held[1] # 0 /\ held[2] # 0 /\ held[1] # held[2]
  /\ HeldVal(1) # heap[GetItem(store, last.key).ref]
  /\ HeldVal(2) = heap[GetItem(store, last.key).ref]

\* ------------------------------------------------------------ C9
\* C9: set(k, v) on a key that is present leaves the store it found with k's
\* entry moved to the most-recently-used end, holding v and the clock reading
\* of this call; the other entries are unchanged and none is evicted.
C9_Overwrite ==
  \A t \in Threads :
    (pc[t] = "s_rel" /\ Contains(snap.store, key[t])) =>
      /\ Now0 = Without(snap.store, key[t]) \o <<Entry(key[t], snap.t, snap.val)>>
      /\ Len(store) = Len(snap.store)
      /\ snap.t >= GetItem(snap.store, key[t]).ts

\* set on the head key of a full store of two, with a new value at a later time
C9_Witness ==
  \E t \in Threads :
    /\ pc[t] = "s_rel" /\ Len(snap.store) = 2 /\ max_size = 2
    /\ snap.store[1].key = key[t]
    /\ snap.store[1].val # snap.val
    /\ snap.store[1].ts < snap.t
    /\ Now0 = <<snap.store[2], Entry(key[t], snap.t, snap.val)>>

\* ------------------------------------------------------------ C10
\* C10: clear() empties the cache in one step: the store is intact until the
\* step and empty from it on until the lock is released, no other caller is
\* inside the cache meanwhile, and a size or get that directly follows clear
\* returns 0 or absent.
C10_ClearAtomic ==
  \A t \in Threads :
    /\ pc[t] = "c151" => Now0 = snap.store
    /\ pc[t] = "c_rel" => store = <<>>
    /\ pc[t] \in {"c151", "c_rel"} => \A u \in Threads \ {t} : ~InCall(u)
    /\ (pc[t] = "z_rel" /\ last.op = "clear") => ret[t] = IntRet(0)
    /\ (pc[t] = "g_rel" /\ last.op = "clear") => Absent(t)

\* a clear of a store of two entries, observed empty before the lock is released
C10_Witness ==
  \E t \in Threads :
    /\ pc[t] = "c_rel" /\ Len(snap.store) = 2 /\ store = <<>>
    /\ \E u \in Threads \ {t} : held[u] # 0

\* ============================================================ app/core/cache.py: compute_cache_key
\* ------------------------------------------------------------ text
\* a str or a bytes object is a sequence of one-character strings; the code
\* points in increasing order (the order Python compares characters by)
CodePoints ==
  <<" ", ",", ".", "/", "0", "1", "2", "3", "4", "5", "6", "7", "8", "9", ":",
    "A", "B", "C", "D", "E", "F", "G", "H", "I", "J", "K", "L", "M",
    "N", "O", "P", "Q", "R", "S", "T", "U", "V", "W", "X", "Y", "Z", "_",
    "a", "b", "c", "d", "e", "f", "g", "h", "i", "j", "k", "l", "m",
    "n", "o", "p", "q", "r", "s", "t", "u", "v", "w", "x", "y", "z", "|">>

Ord(c) == CHOOSE i \in DOMAIN CodePoints : CodePoints[i] = c

\* a < b for two strings, as Python compares them
RECURSIVE StrLess(_, _)
StrLess(a, b) ==
  IF b = <<>> THEN FALSE
  ELSE IF a = <<>> THEN TRUE
  ELSE IF a[1] = b[1] THEN StrLess(Tail(a), Tail(b))
  ELSE Ord(a[1]) < Ord(b[1])

RECURSIVE Insert(_, _)
Insert(x, l) ==
  IF l = <<>> THEN <<x>>
  ELSE IF StrLess(l[1], x) THEN <<l[1]>> \o Insert(x, Tail(l))
  ELSE <<x>> \o l

Unsorted(l) == l

\* sorted(l) for a list of strings
RECURSIVE Sorted(_)
Sorted(l) == IF l = <<>> THEN <<>> ELSE Insert(l[1], Sorted(Tail(l)))

\* sep.join(l)
RECURSIVE Join(_, _)
Join(sep, l) ==
  IF l = <<>> THEN <<>>
  ELSE IF Len(l) = 1 THEN l[1]
  ELSE l[1] \o sep \o Join(sep, Tail(l))

\* ------------------------------------------------------------ Python values
\* a value carries its type, so that a call with the arguments in the wrong
\* places behaves as Python makes it behave
PyNone    == [v |-> <<>>, type |-> "NoneType"]
Bytes(s)  == [v |-> s, type |-> "bytes"]
Str(s)    == [v |-> s, type |-> "str"]
\* a set of strings, given by the order in which iteration yields its elements
SetOf(l)  == [v |-> l, type |-> "set"]
ListOf(l) == [v |-> l, type |-> "list"]
\* list(b) for a bytes object b: a list of ints
IntList(l) == [v |-> l, type |-> "list[int]"]
Exc(name) == [v |-> <<>>, type |-> name]

Exceptions == {"ValueError", "TypeError", "AttributeError"}
IsExc(x)   == x.type \in Exceptions
Elements(x) == {x.v[i] : i \in DOMAIN x.v}

\* bool(x) is False
Falsy(x) == x = PyNone \/ (x.type \in {"str", "bytes", "set", "list"} /\ x.v = <<>>)

\* x or ""
OrEmpty(x) == IF Falsy(x) THEN Str(<<>>) ELSE x

\* x.encode(): a method of str only
Encode(x) ==
  IF IsExc(x) THEN x
  ELSE IF x.type = "str" THEN Bytes(x.v)
  ELSE Exc("AttributeError")

\* sorted(x): a list of the elements of an iterable
SortedOf(x) ==
  IF IsExc(x) THEN x
  ELSE IF x.type = "set" THEN ListOf(Sorted(x.v))
  ELSE IF x.type = "bytes" THEN IntList(x.v)
  ELSE IF x.type = "str" THEN ListOf(Sorted([i \in DOMAIN x.v |-> <<x.v[i]>>]))
  ELSE Exc("TypeError")

\* ",".join(x): every item must be a str
JoinOf(x) ==
  IF IsExc(x) THEN x
  ELSE IF x.type = "list" THEN Str(Join(<<",">>, x.v))
  ELSE IF x.type = "list[int]" /\ x.v = <<>> THEN Str(<<>>)
  ELSE Exc("TypeError")

\* hashlib.blake2b(): nothing fed yet
Hasher == [v |-> <<>>, type |-> "blake2b"]

\* hasher.update(x): x must be a bytes-like object; an exception raised
\* earlier in the function has already left it
Update(h, x) ==
  IF IsExc(h) THEN h
  ELSE IF IsExc(x) THEN x
  ELSE IF x.type = "bytes" THEN [h EXCEPT !.v = h.v \o x.v]
  ELSE Exc("TypeError")

\* hasher.hexdigest(): BLAKE2b is taken to be free of collisions, so a digest
\* stands for the bytes that were fed and for nothing else
HexDigest(h) == IF IsExc(h) THEN h ELSE [v |-> h.v, type |-> "digest"]

NotNeither(image_bytes, url) == ~(image_bytes = PyNone /\ url = PyNone)

\* the negation of the condition at line 52
ExactlyOne(image_bytes, url) ==
  ~(\/ (image_bytes = PyNone /\ url = PyNone)
    \/ (image_bytes # PyNone /\ url # PyNone))

\* lines 55-63: the primary identifier
Identifier(image_bytes, url) ==
  IF url # PyNone
    THEN Update(Update(Hasher, Bytes(<<"u", "r", "l", ":">>)), Encode(url))
    ELSE Update(Update(Hasher, Bytes(<<"b", "y", "t", "e", "s", ":">>)), image_bytes)

\* lines 55-70: everything the hasher is fed
PreHash(metrics, edge_mode, image_bytes, url) ==
  LET h1 == Identifier(image_bytes, url)
      h2 == Update(h1, Bytes(<<"|">>))
      h3 == Update(h2, Encode(JoinOf(SortedOf(metrics))))
      h4 == Update(h3, Bytes(<<"|">>))
  IN Update(h4, Encode(OrEmpty(edge_mode)))

\* compute_cache_key(metrics, edge_mode, image_bytes=None, url=None)
ComputeCacheKey(metrics, edge_mode, image_bytes, url) ==
  IF ~ExactlyOne(image_bytes, url) THEN Exc("ValueError")
  ELSE HexDigest(PreHash(metrics, edge_mode, image_bytes, url))


\* ------------------------------------------------------------ calls of compute_cache_key
MaxLen   == 1      \* the longest content or URL a call is given
MaxCalls == 2      \* calls of a module-level function in one run

\* the characters of contents and URLs: the separator and one other
KeyAlphabet == {"|", "a"}
Texts == UNION {[1..n -> KeyAlphabet] : n \in 0..MaxLen}

\* validators.py: valid_metrics and valid_modes
Brightness == <<"b", "r", "i", "g", "h", "t", "n", "e", "s", "s">>
Median     == <<"m", "e", "d", "i", "a", "n">>
Histogram  == <<"h", "i", "s", "t", "o", "g", "r", "a", "m">>
LeftRight  == <<"l", "e", "f", "t", "_", "r", "i", "g", "h", "t">>
TopBottom  == <<"t", "o", "p", "_", "b", "o", "t", "t", "o", "m">>
All        == <<"a", "l", "l">>
ValidMetrics == {Brightness, Median, Histogram}
ValidModes   == {LeftRight, TopBottom, All}

\* a set of metric names in every order iteration may yield it
MetricOrders ==
  {l \in UNION {[1..n -> ValidMetrics] : n \in 0..Cardinality(ValidMetrics)} :
     \A i, j \in DOMAIN l : l[i] = l[j] => i = j}

EdgeArgs   == {PyNone} \cup {Str(m) : m \in ValidModes}
BytesArgs  == {PyNone} \cup {Bytes(t) : t \in Texts}
UrlArgs    == {PyNone} \cup {Str(t) : t \in Texts}

NoCall == [result |-> PyNone, fn |-> "none", args |-> <<>>, fed |-> PyNone]

\* the cache is not part of a call of a module-level function
cacheVars == <<store, lock, max_size, ttl, now, heap, pc, key, held, loc, ret,
               snap, last, everSet>>

CacheUnused ==
  /\ store = <<>>
  /\ lock = 0
  /\ max_size = MaxCap
  /\ ttl = MaxTtl
  /\ now = 0
  /\ heap = [o \in Objs |-> 0]
  /\ pc = [t \in Threads |-> "idle"]
  /\ key = [t \in Threads |-> 0]
  /\ held = [t \in Threads |-> 0]
  /\ loc = [t \in Threads |-> NoLoc]
  /\ ret = [t \in Threads |-> None]
  /\ snap = NoSnap
  /\ last = NoLast
  /\ everSet = {}

InitKey ==
  /\ CacheUnused
  /\ req = <<>>
  /\ settings = Settings
  /\ call = [n |-> 0, cur |-> NoCall, prev |-> NoCall]

\* key = compute_cache_key(metrics, edge_mode, image_bytes=b, url=u); the
\* last call that returned a key is remembered beside the current one
KeyCall(m, e, b, u) ==
  /\ call.n < MaxCalls
  /\ call' = [n |-> call.n + 1,
              cur |-> [result |-> ComputeCacheKey(SetOf(m), e, b, u),
                       fn |-> "compute_cache_key",
                       args |-> <<SetOf(m), e, b, u>>,
                       fed |-> PreHash(SetOf(m), e, b, u)],
              prev |-> IF call.cur.result.type = "digest" THEN call.cur ELSE call.prev]
  /\ UNCHANGED <<cacheVars, req, settings>>

NextKey ==
  \E m \in MetricOrders, e \in EdgeArgs, b \in BytesArgs, u \in UrlArgs :
    KeyCall(m, e, b, u)

SpecKey == InitKey /\ [][NextKey]_vars

\* ------------------------------------------------------------ C16
Supplied(c) == Cardinality({i \in {3, 4} : c.args[i] # PyNone})

\* C16: compute_cache_key raises ValueError on every call that supplies both
\* image_bytes and url, and on every call that supplies neither; it returns a
\* key exactly when one of the two is supplied.
C16_ExactlyOneSource ==
  call.cur.fn = "compute_cache_key" =>
    /\ Supplied(call.cur) # 1 => call.cur.result = Exc("ValueError")
    /\ Supplied(call.cur) = 1 <=> call.cur.result.type = "digest"

\* a call with both a content and a URL, after one that returned a key
C16_Witness ==
  /\ call.cur.fn = "compute_cache_key"
  /\ Supplied(call.cur) = 2
  /\ call.cur.result = Exc("ValueError")
  /\ call.prev.result.type = "digest"

\* ------------------------------------------------------------ C17
\* what a key is meant to stand for: the kind of source, its value, the set
\* of metric names and the edge mode
KeyOf(c) ==
  <<IF c.args[4] # PyNone THEN "url" ELSE "bytes",
    IF c.args[4] # PyNone THEN c.args[4].v ELSE c.args[3].v,
    Elements(c.args[1]),
    c.args[2]>>

\* C17: two calls that return a key feed the hash the same bytes (and so
\* return the same key) if and only if they agree on the kind of source, on
\* its value, on the set of metric names whatever its order, and on the edge
\* mode; contents and URLs may contain the separator "|".
C17_PreHashInjective ==
  (call.cur.result.type = "digest" /\ call.prev.result.type = "digest") =>
    /\ call.cur.fed = call.prev.fed <=> KeyOf(call.cur) = KeyOf(call.prev)
    /\ call.cur.result = call.prev.result <=> call.cur.fed = call.prev.fed

\* the same two metrics in two orders and a content that is the separator
C17_Witness ==
  /\ call.cur.result.type = "digest" /\ call.prev.result.type = "digest"
  /\ call.cur.args[3] = Bytes(<<"|">>)
  /\ call.cur.args[1] = SetOf(<<Median, Brightness>>)
  /\ call.prev.args[1] = SetOf(<<Brightness, Median>>)
  /\ call.cur.result = call.prev.result


\* ============================================================ app/core/validators.py, app/core/url_handler.py
\* ------------------------------------------------------------ str methods
KeepCase(s) == s

\* s.lower()
Lower(s) ==
  LET upper == <<"A", "B", "C", "D", "E", "F", "G", "H", "I", "J", "K", "L", "M",
                 "N", "O", "P", "Q", "R", "S", "T", "U", "V", "W", "X", "Y", "Z">>
      lower == <<"a", "b", "c", "d", "e", "f", "g", "h", "i", "j", "k", "l", "m",
                 "n", "o", "p", "q", "r", "s", "t", "u", "v", "w", "x", "y", "z">>
  IN [i \in DOMAIN s |->
        IF \E j \in DOMAIN upper : upper[j] = s[i]
          THEN lower[CHOOSE j \in DOMAIN upper : upper[j] = s[i]]
          ELSE s[i]]

RECURSIVE LStrip(_)
LStrip(s) == IF s # <<>> /\ s[1] = " " THEN LStrip(Tail(s)) ELSE s

RECURSIVE RStrip(_)
RStrip(s) ==
  IF s # <<>> /\ s[Len(s)] = " " THEN RStrip(SubSeq(s, 1, Len(s) - 1)) ELSE s

NoStrip(s) == s

\* s.strip()
Strip(s) == RStrip(LStrip(s))

\* s.split(c): the pieces between the occurrences of the character c
RECURSIVE Split(_, _)
Split(s, c) ==
  IF \A i \in DOMAIN s : s[i] # c THEN <<s>>
  ELSE LET i == CHOOSE j \in DOMAIN s : s[j] = c /\ \A l \in 1..(j - 1) : s[l] # c
       IN <<SubSeq(s, 1, i - 1)>> \o Split(SubSeq(s, i + 1, Len(s)), c)

\* s.startswith(p)
StartsWith(s, p) == Len(s) >= Len(p) /\ SubSeq(s, 1, Len(p)) = p

\* ------------------------------------------------------------ validators.py
\* raise HTTPException(status_code=status, ...)
Http(status) == [v |-> status, type |-> "HTTPException"]
IsHttp(x)    == x.type = "HTTPException"
\* the call ended in an exception (a dict of results has no such field)
Raised(x)    == "type" \in DOMAIN x /\ (IsExc(x) \/ IsHttp(x))

\* a set of metric names as a Python set object (iteration yields some order)
AsSet(S) == SetOf(CHOOSE l \in MetricOrders : Elements(SetOf(l)) = S)

\* {m.strip().lower() for m in metrics.split(",") if m.strip()}
Requested(metrics) ==
  LET parts == Split(metrics.v, ",")
  IN {Lower(Strip(parts[i])) : i \in {j \in DOMAIN parts : Strip(parts[j]) # <<>>}}

\* validate_metrics(metrics)
ValidateMetrics(metrics) ==
  IF metrics = PyNone THEN AsSet({Brightness})
  ELSE IF Requested(metrics) \ ValidMetrics # {} THEN Http(400)
  ELSE IF Requested(metrics) = {} THEN AsSet({Brightness})
  ELSE AsSet(Requested(metrics))

\* validate_edge_mode(edge_mode)
ValidateEdgeMode(edge_mode) ==
  IF edge_mode = PyNone THEN PyNone
  ELSE IF Lower(Strip(edge_mode.v)) \notin ValidModes THEN Http(400)
  ELSE Str(Lower(Strip(edge_mode.v)))


\* ------------------------------------------------------------ url_handler.py
MaxFileSize == 2   \* settings.MAX_FILE_SIZE (5 MB), scaled to bodies that can be enumerated
ChunkSize   == 1   \* chunk_size of aiter_bytes (65536), scaled with it

RECURSIVE TakeUntil(_, _)
TakeUntil(s, C) ==
  IF s = <<>> \/ s[1] \in C THEN <<>> ELSE <<s[1]>> \o TakeUntil(Tail(s), C)

\* the part of s after the last occurrence of the character c
RECURSIVE AfterLast(_, _)
AfterLast(s, c) ==
  IF \A i \in DOMAIN s : s[i] # c THEN s
  ELSE AfterLast(SubSeq(s, (CHOOSE j \in DOMAIN s : s[j] = c) + 1, Len(s)), c)

HttpPrefix  == <<"h", "t", "t", "p", ":", "/", "/">>
HttpsPrefix == <<"h", "t", "t", "p", "s", ":", "/", "/">>

\* urlparse(url).netloc, for a URL that starts with http:// or https://
NetLoc(url) ==
  TakeUntil(SubSeq(url, Len(TakeUntil(url, {":"})) + 4, Len(url)), {"/", "?", "#"})

\* urlparse(url).hostname: without user info and port, lower-cased
Hostname(url) ==
  LET host == AfterLast(NetLoc(url), "@")
  IN Lower(IF host # <<>> /\ host[1] = "["
             THEN TakeUntil(Tail(host), {"]"})
             ELSE TakeUntil(host, {":"}))

Digits == <<"0", "1", "2", "3", "4", "5", "6", "7", "8", "9">>

RECURSIVE Decimal(_)
Decimal(s) ==
  IF s = <<>> THEN 0
  ELSE 10 * Decimal(SubSeq(s, 1, Len(s) - 1))
       + (CHOOSE i \in DOMAIN Digits : Digits[i] = s[Len(s)]) - 1

IsOctet(s) ==
  /\ Len(s) \in 1..3
  /\ \A i \in DOMAIN s : \E j \in DOMAIN Digits : Digits[j] = s[i]
  /\ Len(s) > 1 => s[1] # "0"
  /\ Decimal(s) <= 255

\* ipaddress.ip_address(host) accepts host as an IPv4 address
IsIPv4(host) ==
  /\ Len(Split(host, ".")) = 4
  /\ \A i \in 1..4 : IsOctet(Split(host, ".")[i])

Octet(host, i) == Decimal(Split(host, ".")[i])

\* the properties of an IPv4 address object
IsLoopback(host)  == Octet(host, 1) = 127
IsLinkLocal(host) == Octet(host, 1) = 169 /\ Octet(host, 2) = 254
IsMulticast(host) == Octet(host, 1) \in 224..239
IsPrivate(host) ==
  LET a == Octet(host, 1)
      b == Octet(host, 2)
      c == Octet(host, 3)
      d == Octet(host, 4)
  IN \/ a \in {0, 10, 127}
     \/ a = 169 /\ b = 254
     \/ a = 172 /\ b \in 16..31
     \/ a = 192 /\ b = 0 /\ c = 0 /\ d \in (0..7) \cup {170, 171}
     \/ a = 192 /\ b = 0 /\ c = 2
     \/ a = 192 /\ b = 168
     \/ a = 198 /\ b \in {18, 19}
     \/ a = 198 /\ b = 51 /\ c = 100
     \/ a = 203 /\ b = 0 /\ c = 113
     \/ a \in 240..255

HexDigits == <<"0", "1", "2", "3", "4", "5", "6", "7", "8", "9", "a", "b", "c", "d", "e", "f">>

RECURSIVE Hex(_)
Hex(s) ==
  IF s = <<>> THEN 0
  ELSE 16 * Hex(SubSeq(s, 1, Len(s) - 1))
       + (CHOOSE i \in DOMAIN HexDigits : HexDigits[i] = s[Len(s)]) - 1

\* ipaddress.ip_address(host) accepts host as an IPv6 address: of the
\* notations of one, those with a first and a last group and "::" between
IsIPv6(host) ==
  LET first == TakeUntil(host, {":"})
      rest  == SubSeq(host, Len(first) + 1, Len(host))
      IsGroup(g) == Len(g) \in 1..4 /\ \A i \in DOMAIN g : \E j \in DOMAIN HexDigits : HexDigits[j] = g[i]
  IN /\ IsGroup(first)
     /\ StartsWith(rest, <<":", ":">>)
     /\ IsGroup(SubSeq(rest, 3, Len(rest)))

\* ip.is_private or ip.is_link_local or ip.is_multicast of such an address:
\* 100::/64, 2001::/23, fc00::/7, fe80::/10 and ff00::/8
NotGlobal6(host) ==
  LET g == Hex(TakeUntil(host, {":"}))
  IN g \in {256, 8193} \/ g \in 64512..65023 \/ g \in 65152..65215 \/ g \in 65280..65535

LocalNames == {<<"l", "o", "c", "a", "l", "h", "o", "s", "t">>, <<"1", "2", "7", ".", "0", ".", "0", ".", "1">>, <<":", ":", "1">>}

PrivateAllowed(url) == Hostname(url) = <<>>

\* _is_private_or_local_url(url)
IsPrivateOrLocalUrl(url) ==
  LET hostname == Hostname(url)
  IN \/ hostname = <<>>
     \/ hostname \in LocalNames
     \/ /\ IsIPv4(hostname)
        /\ \/ IsPrivate(hostname)
           \/ IsLoopback(hostname)
           \/ IsLinkLocal(hostname)
           \/ IsMulticast(hostname)
     \/ IsIPv6(hostname) /\ NotGlobal6(hostname)

\* validate_and_download_from_url, lines 64-88: the checks made before the
\* request is sent; the value is the URL to fetch, or the exception raised
CheckUrl(url) ==
  IF url.v = <<>> \/ Strip(url.v) = <<>> THEN Http(400)
  ELSE IF ~(StartsWith(Strip(url.v), HttpPrefix) \/ StartsWith(Strip(url.v), HttpsPrefix))
    THEN Http(400)
  ELSE IF IsPrivateOrLocalUrl(Strip(url.v)) THEN Http(400)
  ELSE Str(Strip(url.v))

\* settings.ALLOWED_CONTENT_TYPES
ImageJpeg == <<"i", "m", "a", "g", "e", "/", "j", "p", "e", "g">>
ImagePng  == <<"i", "m", "a", "g", "e", "/", "p", "n", "g">>
ALLOWED_CONTENT_TYPES == {ImageJpeg, ImagePng}

\* content_type.split(";", 1)[0].strip() of the lower-cased header
MediaType(header) == Strip(Split(Lower(header), ";")[1])

\* the body is handed over in one piece
WholeBody(rest) == rest

\* validate_image_upload, lines 22-30: the declared content type is compared
\* as it was sent; PyNone: nothing is raised and the body is read
AnyContentType(content_type) == PyNone

CheckContentType(content_type) ==
  IF content_type \notin ALLOWED_CONTENT_TYPES THEN Http(415) ELSE PyNone

\* validate_image_upload, lines 36-50: contents = await image.read() has
\* given body
CheckBody(body) ==
  IF Len(body) > MaxFileSize THEN Http(413)
  ELSE IF Len(body) = 0 THEN Http(400)
  ELSE Bytes(body)

\* line 157: response.aiter_bytes(chunk_size=65536) hands over the next
\* ChunkSize bytes of what is left of the body, or all of it when less is left
Chunk(rest) == SubSeq(rest, 1, IF Len(rest) < ChunkSize THEN Len(rest) ELSE ChunkSize)

\* lines 153-173: the body arrives in chunks and the cap is checked after each
RECURSIVE Stream(_, _)
Stream(contents, rest) ==
  IF rest = <<>>
    THEN IF Len(contents) = 0 THEN Http(400) ELSE Bytes(contents)
  ELSE LET extended == contents \o Chunk(rest)
       IN IF Len(extended) > MaxFileSize THEN Http(413)
          ELSE Stream(extended, SubSeq(rest, Len(Chunk(rest)) + 1, Len(rest)))

\* lines 97-151 and 175-188: what the function makes of the remote server's
\* answer before it reads the body (content_length -1: no Content-Length
\* header, or one that int() does not parse); PyNone: the body is read
Answered(remote) ==
  IF remote.kind = "timeout" THEN Http(408)
  ELSE IF remote.kind = "error" THEN Http(400)
  ELSE IF remote.status # 200 THEN Http(400)
  ELSE IF MediaType(remote.content_type) \notin ALLOWED_CONTENT_TYPES THEN Http(415)
  ELSE IF remote.content_length > MaxFileSize THEN Http(413)
  ELSE PyNone

\* validate_and_download_from_url, lines 97-188, after the URL checks
Download(remote) ==
  IF Raised(Answered(remote)) THEN Answered(remote) ELSE Stream(<<>>, remote.body)


\* ============================================================ app/api/image_analysis.py
NReqs == 2         \* requests in progress at the same time
Reqs  == 1..NReqs

\* the response FastAPI makes of a dict the handler returns
Ok(body) == [status |-> 200, body |-> body]

\* the response made of an exception that leaves the handler: FastAPI's for
\* an HTTPException, main.py's global_exception_handler for any other
ErrorResponse(x) ==
  IF IsHttp(x) THEN [status |-> x.v, body |-> [f \in {"detail"} |-> x.type]]
  ELSE [status |-> 500,
        body |-> [f \in {"error", "details"} |->
                    IF f = "error" THEN "Internal server error" ELSE x.type]]

NoResponse == [status |-> 0, body |-> <<>>]

\* d[f] = x
With(d, f, x) == [g \in DOMAIN d \cup {f} |-> IF g = f THEN x ELSE d[g]]

\* Image.open(...).convert("RGB") succeeds: the bytes start as an image file does
Decodable(contents) == contents.v # <<>> /\ contents.v[1] = "P"

\* the sum of a sequence of numbers
RECURSIVE Sum(_)
Sum(s) == IF s = <<>> THEN 0 ELSE Head(s) + Sum(Tail(s))

\* ============================================================ float64
\* The luminance functions compute in numpy's float64.  A value is kept as
\* the whole number of its multiples of 2^-Scale (every value that occurs is
\* such a multiple), written in Limbs digits of LimbBits bits, the least
\* significant first.  An operation is carried out exactly and its result
\* is rounded to the nearest number of Precision significant bits, a tie to
\* the even one.
Scale     == 64
LimbBits  == 12
Precision == 53

Base  == 2^LimbBits
Limbs == (Scale + 20) \div LimbBits + 1

Zero == [i \in 1..Limbs |-> 0]

\* 2^n
Pow2(n) == [i \in 1..Limbs |-> IF i = n \div LimbBits + 1 THEN 2^(n % LimbBits) ELSE 0]

\* the digits of the number whose digits, carries not yet made, are f
RECURSIVE Carry(_, _, _)
Carry(f, i, c) ==
  IF i > Len(f) THEN <<>>
  ELSE <<(f[i] + c) % Base>> \o Carry(f, i + 1, (f[i] + c) \div Base)

\* the exact sum, and the exact product with a natural number
Plus(a, b)  == Carry([i \in 1..Limbs |-> a[i] + b[i]], 1, 0)
Times(a, n) == Carry([i \in 1..Limbs |-> a[i] * n], 1, 0)

\* the exact quotient q and the remainder r of the division of the digits
\* i, i-1, ... of a, after a remainder r of the digits above, by d
RECURSIVE Quot(_, _, _, _)
Quot(a, d, i, r) ==
  IF i = 0 THEN [r |-> r, q |-> <<>>]
  ELSE LET t    == r * Base + a[i]
           rest == Quot(a, d, i - 1, t % d)
       IN [r |-> rest.r, q |-> rest.q \o <<t \div d>>]

\* a natural number as a value
FromInt(n) == Times(Pow2(Scale), n)

\* bit i of a, the bits below bit n, and the number of bits of a
Bit(a, i) == (a[i \div LimbBits + 1] \div 2^(i % LimbBits)) % 2

LowZero(a, n) == \A i \in 0..(n - 1) : Bit(a, i) = 0

BitLength(a) ==
  IF a = Zero THEN 0
  ELSE LET top == CHOOSE i \in 1..Limbs : a[i] # 0 /\ \A j \in (i + 1)..Limbs : a[j] = 0
       IN (top - 1) * LimbBits
          + (CHOOSE k \in 1..LimbBits : 2^(k - 1) <= a[top] /\ a[top] < 2^k)

\* a with its n lowest bits cleared
Truncate(a, n) ==
  [i \in 1..Limbs |->
     IF i * LimbBits <= n THEN 0
     ELSE IF (i - 1) * LimbBits < n
       THEN (a[i] \div 2^(n - (i - 1) * LimbBits)) * 2^(n - (i - 1) * LimbBits)
     ELSE a[i]]

\* a <= b
Leq(a, b) ==
  a = b \/ \E i \in 1..Limbs : a[i] < b[i] /\ \A j \in (i + 1)..Limbs : a[j] = b[j]

\* a, or a and a remainder when inexact, rounded to Precision significant bits
Nearest(a, inexact) ==
  LET drop == BitLength(a) - Precision
      up   == /\ Bit(a, drop - 1) = 1
              /\ (inexact \/ ~LowZero(a, drop - 1) \/ Bit(a, drop) = 1)
  IN IF drop <= 0 THEN a
     ELSE IF up THEN Plus(Truncate(a, drop), Pow2(drop))
     ELSE Truncate(a, drop)

\* x + y, x * n and x / d in float64, for natural numbers n and d
FPlus(x, y)  == Nearest(Plus(x, y), FALSE)
FTimes(x, n) == Nearest(Times(x, n), FALSE)
FDiv(x, d)   == Nearest(Quot(x, d, Limbs, 0).q, Quot(x, d, Limbs, 0).r # 0)

\* the whole part of x
IntegerPart(x) ==
  LET q == Scale \div LimbBits
      o == Scale % LimbBits
  IN Sum([i \in 1..Limbs |->
            IF i <= q THEN 0
            ELSE IF i = q + 1 THEN x[i] \div 2^o
            ELSE x[i] * 2^((i - q - 1) * LimbBits - o)])

\* round(x) of Python 3 for a float x: the nearest integer, a tie to the even one
RoundToInt(x) ==
  IF Bit(x, Scale - 1) = 1 /\ (~LowZero(x, Scale - 1) \/ IntegerPart(x) % 2 = 1)
    THEN IntegerPart(x) + 1
  ELSE IntegerPart(x)

\* ============================================================ app/core/resize.py
MAX_DIMENSION == 512

\* round(side * (max_dim / other)) in the place of int(...)
ScaledToNearest(side, max_dim, other) == RoundToInt(FTimes(FDiv(FromInt(max_dim), other), side))

\* int(side * (max_dim / other)) of lines 30 and 33: the quotient and the
\* product are float64, int() drops the fraction
Scaled(side, max_dim, other) == IntegerPart(FTimes(FDiv(FromInt(max_dim), other), side))

\* resize_image_if_needed, lines 8-39, of the <<width, height>> of an image
ResizeImageIfNeeded(size) ==
  LET max_dim    == MAX_DIMENSION
      width      == size[1]
      height     == size[2]
      AtLeast1(n) == IF n < 1 THEN 1 ELSE n
  IN IF width <= max_dim /\ height <= max_dim THEN size
     ELSE IF width > height
       THEN <<max_dim, AtLeast1(Scaled(height, max_dim, width))>>
     ELSE <<AtLeast1(Scaled(width, max_dim, height)), max_dim>>

\* what Image.open(...).convert("RGB") finds in the bytes it can decode: the
\* images of this table, and an image of one pixel in any other
Pictures ==
  {[size |-> <<2000, 1500>>, bytes |-> <<"P", "w">>],
   [size |-> <<600, 1024>>, bytes |-> <<"P", "h">>],
   [size |-> <<512, 512>>, bytes |-> <<"P", "s">>],
   [size |-> <<1024, 1>>, bytes |-> <<"P", "l">>],
   [size |-> <<513, 513>>, bytes |-> <<"P", "q">>]}

ImageOpen(contents) ==
  IF \E p \in Pictures : p.bytes = contents.v
    THEN (CHOOSE p \in Pictures : p.bytes = contents.v).size
  ELSE <<1, 1>>

\* the size of the image the metrics are computed on, line 105
Resized(contents) == ResizeImageIfNeeded(ImageOpen(contents))

DimensionsAfterResize(contents) == Resized(contents)

\* line 99: original_width, original_height = img.size, before line 105
Dimensions(contents) == ImageOpen(contents)

MedianAlways(requested_metrics) == TRUE

\* "median" in requested_metrics
WantsMedian(requested_metrics) == Median \in Elements(requested_metrics)

\* _process_image_bytes, lines 116-144: the keys of the response
ResponseFields(requested_metrics, validated_edge_mode) ==
  (IF Brightness \in Elements(requested_metrics)
     THEN {"brightness_score", "average_luminance"} ELSE {})
  \cup (IF ~Falsy(validated_edge_mode)
          THEN {"edge_brightness_score", "edge_average_luminance", "edge_mode"} ELSE {})
  \cup (IF WantsMedian(requested_metrics) THEN {"median_luminance"} ELSE {})
  \cup (IF Histogram \in Elements(requested_metrics) THEN {"histogram"} ELSE {})
  \cup {"width", "height", "algorithm"}

\* the value of a key: a metric is determined by the image (and the edge mode)
FieldValue(f, contents, validated_edge_mode) ==
  IF f = "edge_mode" THEN validated_edge_mode.v
  ELSE IF f = "algorithm" THEN <<"rec709">>
  ELSE IF f \in {"edge_brightness_score", "edge_average_luminance"}
    THEN <<f, contents.v, validated_edge_mode.v>>
  ELSE IF f = "width" THEN Dimensions(contents)[1]
  ELSE IF f = "height" THEN Dimensions(contents)[2]
  ELSE <<f, contents.v>>

\* _process_image_bytes(contents, requested_metrics, validated_edge_mode)
ProcessImageBytes(contents, requested_metrics, validated_edge_mode) ==
  IF ~Decodable(contents) THEN Http(400)
  ELSE [f \in ResponseFields(requested_metrics, validated_edge_mode) |->
          FieldValue(f, contents, validated_edge_mode)]

\* compute_cache_key(contents, requested_metrics, validated_edge_mode) at
\* lines 296 and 437: the arguments are passed by position, so they are bound
\* to the parameters metrics, edge_mode and image_bytes in that order, and url
\* keeps its default
KeyAtCallSite(contents, requested_metrics, validated_edge_mode) ==
  ComputeCacheKey(contents, requested_metrics, validated_edge_mode, PyNone)

Swallowed(x) == FALSE

\* lines 295-297 and 436-438 are inside no try block: an exception raised by
\* compute_cache_key leaves the handler
Propagates(x) == Raised(x)

\* _cache.get(cache_key) returns a result
CacheHit(s, cache_key, t, limit) ==
  Contains(s, cache_key) /\ ~Expired(t, GetItem(s, cache_key).ts, limit)

\* response["cached"] = False and the time stamp, both before the store
MarkFreshAndTimed(response) == With(With(response, "cached", FALSE), "processing_time_ms", 0)

\* lines 313 and 454: response["cached"] = False
MarkFresh(response) == With(response, "cached", FALSE)

\* lines 319-322 and 460-463: response["processing_time_ms"] = ...
Timed(response, elapsed) == With(response, "processing_time_ms", elapsed)

\* lines 299-302 and 440-443: the copy the cache returned, stamped
FromCache(cached, elapsed) ==
  With(With(cached, "processing_time_ms", elapsed), "cached", TRUE)

\* lines 297-334 and 438-475: the handler once cache_key is assigned, from
\* the lookup to the return, which no await interrupts; the value is the
\* store left behind, the response, and how often the cache was read and
\* the image analysed
ServeWithKey(s, cache_key, contents, requested_metrics, validated_edge_mode, elapsed, t, m, limit, enabled) ==
  LET got   == SeqGet(s, cache_key, t, limit)
      s1    == IF enabled THEN got.store ELSE s
      fresh == ProcessImageBytes(contents, requested_metrics, validated_edge_mode)
      reads == IF enabled THEN 1 ELSE 0
  IN IF enabled /\ CacheHit(s, cache_key, t, limit)
       THEN [store |-> s1, response |-> Ok(FromCache(got.ret, elapsed)),
             lookups |-> 1, analyses |-> 0]
     ELSE IF Raised(fresh)
       THEN [store |-> s1, response |-> ErrorResponse(fresh), lookups |-> reads, analyses |-> 1]
     ELSE [store |-> IF enabled THEN SeqSet(s1, cache_key, MarkFresh(fresh), t, m) ELSE s1,
           response |-> Ok(Timed(MarkFresh(fresh), elapsed)),
           lookups |-> reads, analyses |-> 1]

\* lines 293-334 and 434-475: the key derivation of lines 296 and 437, made
\* when the cache is enabled, and the rest of the handler
Serve(s, contents, requested_metrics, validated_edge_mode, elapsed, t, m, limit, enabled) ==
  LET k         == KeyAtCallSite(contents, requested_metrics, validated_edge_mode)
      cache_key == IF enabled /\ ~Raised(k) THEN k ELSE Str(<<>>)
  IN IF enabled /\ Propagates(k)
       THEN [store |-> s, response |-> ErrorResponse(k), lookups |-> 0, analyses |-> 0]
     ELSE ServeWithKey(s, cache_key, contents, requested_metrics, validated_edge_mode,
                       elapsed, t, m, limit, enabled)

\* ------------------------------------------------------------ the handlers
Idle ==
  [pc |-> "idle", url |-> PyNone, metrics |-> PyNone, edge_mode |-> PyNone,
   content_type |-> <<>>, contents |-> PyNone,
   requested_metrics |-> PyNone, validated_edge_mode |-> PyNone, response |-> NoResponse,
   lookups |-> 0, analyses |-> 0, endpoint |-> "none", start_time |-> 0,
   fetches |-> 0]

Free(r) == req[r].pc \in {"idle", "done"}

\* the handler returns, or an exception leaves it
Done(h, response) == [h EXCEPT !.pc = "done", !.response = response]

\* analyze_image, lines 270-285, and validate_image_upload up to
\* `await image.read()`
UploadBegin(r, metrics, edge_mode, content_type) ==
  /\ Free(r)
  /\ LET rm  == ValidateMetrics(metrics)
         vem == IF Raised(rm) THEN PyNone ELSE ValidateEdgeMode(edge_mode)
         h   == [Idle EXCEPT !.endpoint = "upload", !.metrics = metrics,
                             !.edge_mode = edge_mode, !.content_type = content_type,
                             !.start_time = now]
     IN req' = [req EXCEPT ![r] =
          IF Raised(rm) THEN Done(h, ErrorResponse(rm))
          ELSE IF Raised(vem)
            THEN Done([h EXCEPT !.requested_metrics = rm], ErrorResponse(vem))
          ELSE IF Raised(CheckContentType(content_type))
            THEN Done([h EXCEPT !.requested_metrics = rm, !.validated_edge_mode = vem],
                      ErrorResponse(CheckContentType(content_type)))
          ELSE [h EXCEPT !.pc = "reading", !.requested_metrics = rm,
                         !.validated_edge_mode = vem]]
  /\ UNCHANGED <<cacheVars, call, settings>>

CacheAlways(cfg) == TRUE

\* lines 295, 316, 436 and 457: if settings.CACHE_ENABLED:
CacheEnabled(cfg) == cfg.CACHE_ENABLED

\* the rest of the handler once the body of the request has arrived:
\* validate_image_upload, lines 33-50, then analyze_image, lines 286-334
Finish(r, contents) ==
  LET out == Serve(store, contents, req[r].requested_metrics, req[r].validated_edge_mode,
                   now - req[r].start_time, now, max_size, ttl, CacheEnabled(settings))
  IN /\ req' = [req EXCEPT ![r] =
                  Done([@ EXCEPT !.contents = contents, !.lookups = out.lookups,
                                 !.analyses = out.analyses],
                       out.response)]
     /\ store' = out.store

UploadFinish(r, body) ==
  /\ req[r].pc = "reading"
  /\ IF Raised(CheckBody(body))
       THEN req' = [req EXCEPT ![r] = Done(@, ErrorResponse(CheckBody(body)))] /\ store' = store
     ELSE Finish(r, CheckBody(body))
  /\ UNCHANGED <<lock, max_size, ttl, now, heap, pc, key, held, loc, ret, snap, last,
                 everSet, call, settings>>

\* analyze_image_from_url, lines 410-428, and validate_and_download_from_url
\* up to the request it sends at line 100 (line 413 makes a string for the
\* log with redact_url_for_logging, which the source tree imports and does
\* not define: it is taken to return and to change nothing)
UrlBegin(r, metrics, edge_mode, url) ==
  /\ Free(r)
  /\ LET rm  == ValidateMetrics(metrics)
         vem == IF Raised(rm) THEN PyNone ELSE ValidateEdgeMode(edge_mode)
         h   == [Idle EXCEPT !.endpoint = "url", !.metrics = metrics,
                             !.edge_mode = edge_mode, !.url = url, !.start_time = now]
     IN req' = [req EXCEPT ![r] =
          IF Raised(rm) THEN Done(h, ErrorResponse(rm))
          ELSE IF Raised(vem)
            THEN Done([h EXCEPT !.requested_metrics = rm], ErrorResponse(vem))
          ELSE IF Raised(CheckUrl(url))
            THEN Done([h EXCEPT !.requested_metrics = rm, !.validated_edge_mode = vem],
                      ErrorResponse(CheckUrl(url)))
          ELSE [h EXCEPT !.pc = "fetching", !.requested_metrics = rm,
                         !.validated_edge_mode = vem, !.fetches = 1]]
  /\ UNCHANGED <<cacheVars, call, settings>>

\* the rest of the handler once the remote server has answered or failed:
\* validate_and_download_from_url, lines 102-188, then
\* analyze_image_from_url, lines 429-475
UrlFinish(r, remote) ==
  /\ req[r].pc = "fetching"
  /\ IF Raised(Download(remote))
       THEN req' = [req EXCEPT ![r] = Done(@, ErrorResponse(Download(remote)))]
            /\ store' = store
       ELSE Finish(r, Download(remote))
  /\ UNCHANGED <<lock, max_size, ttl, now, heap, pc, key, held, loc, ret, snap, last,
                 everSet, call, settings>>


\* ------------------------------------------------------------ the requests
\* a body over the cap, an empty one, an image and a file that is no image
Oversize == [i \in 1..(MaxFileSize + 1) |-> "P"]
Bodies   == {<<>>, <<"P">>, <<"x">>, Oversize}

Contrast  == <<"c", "o", "n", "t", "r", "a", "s", "t">>
Bogus     == <<"b", "o", "g", "u", "s">>
TextPlain == <<"t", "e", "x", "t", "/", "p", "l", "a", "i", "n">>
TextHtml  == <<"t", "e", "x", "t", "/", "h", "t", "m", "l">>
PublicUrl  == <<"h", "t", "t", "p", "s", ":", "/", "/", "a", ".", "i", "o", "/", "i">>
PrivateUrl == <<"h", "t", "t", "p", ":", "/", "/", "1", "0", ".", "0", ".", "0", ".", "1", "/", "i">>

\* the requests made: two that pass every check, and one that fails each
ApiUploads ==
  {[metrics |-> PyNone, edge_mode |-> PyNone, content_type |-> ImagePng],
   [metrics |-> Str(Median), edge_mode |-> Str(All), content_type |-> ImagePng],
   [metrics |-> Str(Contrast), edge_mode |-> PyNone, content_type |-> ImagePng],
   [metrics |-> PyNone, edge_mode |-> Str(Bogus), content_type |-> ImagePng],
   [metrics |-> PyNone, edge_mode |-> PyNone, content_type |-> TextPlain]}

ApiUrls ==
  {[url |-> Str(PublicUrl), metrics |-> PyNone, edge_mode |-> PyNone],
   [url |-> Str(PublicUrl), metrics |-> Str(Median), edge_mode |-> Str(All)],
   [url |-> Str(PublicUrl), metrics |-> Str(Contrast), edge_mode |-> PyNone],
   [url |-> Str(PublicUrl), metrics |-> PyNone, edge_mode |-> Str(Bogus)],
   [url |-> Str(PrivateUrl), metrics |-> PyNone, edge_mode |-> PyNone],
   [url |-> Str(<<>>), metrics |-> PyNone, edge_mode |-> PyNone]}

\* what a remote server may answer, and the two ways httpx may fail
Remotes ==
  {[kind |-> k, status |-> 0, content_type |-> <<>>, body |-> <<>>, content_length |-> -1] :
     k \in {"timeout", "error"}}
  \cup UNION {
    {[kind |-> "response", status |-> st, content_type |-> ct, body |-> b, content_length |-> cl] :
       st \in {200, 404}, ct \in {ImagePng, TextHtml}, cl \in {-1, Len(b)}} : b \in Bodies}

NoCalls == [n |-> 0, cur |-> NoCall, prev |-> NoCall]

\* the module is imported: _cache is built and no request is in progress
InitApi ==
  /\ CacheUnused
  /\ req = [r \in Reqs |-> Idle]
  /\ call = NoCalls
  /\ settings = Settings

NextApi ==
  \/ Tick
  \/ \E r \in Reqs, q \in ApiUploads :
       UploadBegin(r, q.metrics, q.edge_mode, q.content_type)
  \/ \E r \in Reqs, b \in Bodies : UploadFinish(r, b)
  \/ \E r \in Reqs, q \in ApiUrls : UrlBegin(r, q.metrics, q.edge_mode, q.url)
  \/ \E r \in Reqs, x \in Remotes : UrlFinish(r, x)

SpecApi == InitApi /\ [][NextApi]_vars


\* ------------------------------------------------------------ claims about the handlers
Range(s) == {s[i] : i \in DOMAIN s}

\* the request of handler h passed every check and its image arrived
Validated(h) == h.contents # PyNone

\* C12: every validated request that reaches the cache lookup derives its
\* key: compute_cache_key raises nothing on the arguments the handler gives it
C12_KeyDerived ==
  \A r \in Reqs :
    Validated(req[r]) =>
      ~Raised(KeyAtCallSite(req[r].contents, req[r].requested_metrics,
                            req[r].validated_edge_mode))

\* C11: an upload of an image is answered 200; it reports cached = true
\* exactly when the cache holds a live entry for its content, metric set and
\* edge mode (so not for other content or another metric set), and when it
\* reports cached = false it leaves exactly one new entry, the one for them
C11_UploadCaching ==
  [][\A r \in Reqs :
       (/\ req[r].pc = "reading"
        /\ req'[r].pc = "done"
        /\ Validated(req'[r])
        /\ Decodable(req'[r].contents))
       => LET h   == req'[r]
              k   == ComputeCacheKey(h.requested_metrics, h.validated_edge_mode,
                                     h.contents, PyNone)
              hit == CacheHit(store, k, now, ttl)
          IN /\ h.response.status = 200
             /\ h.response.body["cached"] = hit
             /\ ~hit => /\ Contains(store', k)
                        /\ Cardinality(Range(store') \ Range(store)) = 1]_vars

C14_LookupBeforeFetch ==
  \A r \in Reqs :
    req[r].endpoint = "url" =>
      /\ req[r].fetches > 0 => req[r].lookups > 0
      /\ (req[r].response.status = 200 /\ req[r].response.body["cached"])
           => req[r].fetches = 0

\* C15: the cache is transparent: a request whose image can be analysed is
\* answered with what a fresh analysis of its content, metric set and edge
\* mode returns, in every field but cached and processing_time_ms
C15_Transparent ==
  \A r \in Reqs :
    (/\ req[r].pc = "done"
     /\ Validated(req[r])
     /\ Decodable(req[r].contents))
    => LET fresh == ProcessImageBytes(req[r].contents, req[r].requested_metrics,
                                      req[r].validated_edge_mode)
       IN /\ req[r].response.status = 200
          /\ DOMAIN req[r].response.body \ {"cached", "processing_time_ms"} = DOMAIN fresh
          /\ \A f \in DOMAIN fresh : req[r].response.body[f] = fresh[f]


\* ============================================================ the fields of a response
\* calls of _process_image_bytes on a validated request, each followed by
\* what the handler makes of the result: the response of a miss, and the
\* response of a hit on the entry the miss stored
Images == {Bytes(<<"P">>), Bytes(<<"x">>)}

MetricSets == {SetOf(l) : l \in MetricOrders \ {<<>>}}

EdgeModes == {PyNone} \cup {Str(e) : e \in ValidModes}

FieldsCall(contents, requested_metrics, validated_edge_mode, elapsed) ==
  /\ call.n < MaxCalls
  /\ LET fresh  == ProcessImageBytes(contents, requested_metrics, validated_edge_mode)
         k      == ComputeCacheKey(requested_metrics, validated_edge_mode, contents, PyNone)
         stored == SeqSet(store, k, MarkFresh(fresh), now, max_size)
         cached == SeqGet(stored, k, now, ttl).ret
     IN call' = [call EXCEPT
          !.n   = @ + 1,
          !.cur = [result |-> IF Raised(fresh) THEN fresh
                              ELSE [hit |-> FromCache(cached, elapsed),
                                    miss |-> Timed(MarkFresh(fresh), elapsed)],
                   fn |-> "_process_image_bytes",
                   args |-> <<contents, requested_metrics, validated_edge_mode>>,
                   fed |-> IF Raised(fresh) THEN PyNone ELSE IntList(Resized(contents))]]
  /\ UNCHANGED <<cacheVars, req, settings>>

NextFields ==
  \/ \E c \in Images, m \in MetricSets, e \in EdgeModes, d \in 0..MaxTime :
       FieldsCall(c, m, e, d)
  \/ \E p \in Pictures, e \in EdgeModes :
       FieldsCall(Bytes(p.bytes), SetOf(<<Brightness>>), e, 0)

SpecFields == InitKey /\ [][NextFields]_vars

\* the call in progress produced a response
Analysed == call.cur.fn = "_process_image_bytes" /\ ~Raised(call.cur.result)

\* the keys of response d are those the metric set and the edge mode ask for
FieldsAsRequested(d, requested_metrics, validated_edge_mode) ==
  /\ \A f \in {"brightness_score", "average_luminance"} :
       f \in DOMAIN d <=> Brightness \in Elements(requested_metrics)
  /\ "median_luminance" \in DOMAIN d <=> Median \in Elements(requested_metrics)
  /\ "histogram" \in DOMAIN d <=> Histogram \in Elements(requested_metrics)
  /\ \A f \in {"edge_brightness_score", "edge_average_luminance", "edge_mode"} :
       f \in DOMAIN d <=> validated_edge_mode # PyNone
  /\ {"width", "height", "algorithm", "processing_time_ms", "cached"} \subseteq DOMAIN d

MaxNames == 2

\* ways of writing a name, with the name meant (<<>>: none)
Written ==
  {[text |-> Brightness, means |-> Brightness],
   [text |-> <<" ", "M", "e", "d", "i", "a", "n", " ">>, means |-> Median],
   [text |-> <<"H", "I", "S", "T", "O", "G", "R", "A", "M">>, means |-> Histogram],
   [text |-> <<>>, means |-> <<>>],
   [text |-> <<" ">>, means |-> <<>>],
   [text |-> Contrast, means |-> Contrast]}

NameLists == UNION {[1..n -> Written] : n \in 1..MaxNames}

MetricsParam(l) == Str(Join(<<",">>, [i \in DOMAIN l |-> l[i].text]))

MetricParams == {PyNone} \cup {MetricsParam(l) : l \in NameLists}

\* one upload at a time, with any metrics parameter
NextMetrics ==
  \/ Tick
  \/ \E m \in MetricParams : UploadBegin(1, m, PyNone, ImagePng)
  \/ \E b \in Bodies : UploadFinish(1, b)

SpecMetrics == InitApi /\ [][NextMetrics]_vars

\* validate_metrics raised in handler h
MetricsRejected(h) == h.pc = "done" /\ h.requested_metrics = PyNone

\* the names meant by the list l
Meant(l) == {l[i].means : i \in DOMAIN l} \ {<<>>}

\* C19: validate_metrics returns a non-empty subset of the valid names:
\* {brightness} for an absent parameter or one without a non-blank name,
\* else the names given, trimmed and lower-cased; if a name is not valid the
\* request is answered 400 and neither the cache nor the analysis is reached
C19_MetricsValidated ==
  \A r \in Reqs :
    LET h == req[r]
    IN h.pc # "idle" =>
         /\ h.metrics = PyNone => Elements(h.requested_metrics) = {Brightness}
         /\ \A l \in NameLists :
              h.metrics = MetricsParam(l) =>
                IF Meant(l) \subseteq ValidMetrics
                  THEN Elements(h.requested_metrics) =
                         (IF Meant(l) = {} THEN {Brightness} ELSE Meant(l))
                  ELSE MetricsRejected(h)
         /\ ~MetricsRejected(h) =>
              /\ Elements(h.requested_metrics) # {}
              /\ Elements(h.requested_metrics) \subseteq ValidMetrics
         /\ MetricsRejected(h) =>
              /\ h.response.status = 400
              /\ h.lookups = 0 /\ h.analyses = 0 /\ h.fetches = 0
              /\ store = <<>>

\* " Median ,HISTOGRAM" was accepted as {median, histogram}, and then the body arrived
C19_Witness ==
  \E r \in Reqs :
    /\ req[r].pc = "done"
    /\ req[r].contents # PyNone
    /\ req[r].metrics = Str(<<" ", "M", "e", "d", "i", "a", "n", " ", ",",
                              "H", "I", "S", "T", "O", "G", "R", "A", "M">>)
    /\ Elements(req[r].requested_metrics) = {Median, Histogram}


\* ============================================================ the URL of a request
\* hosts as they are written in a URL, with the kind of address each names
Hosts ==
  {[kind |-> "localhost", text |-> <<"l", "o", "c", "a", "l", "h", "o", "s", "t">>],
   [kind |-> "localhost", text |-> <<"L", "O", "C", "A", "L", "H", "O", "S", "T">>],
   [kind |-> "loopback", text |-> <<"1", "2", "7", ".", "0", ".", "0", ".", "1">>],
   [kind |-> "loopback", text |-> <<"1", "2", "7", ".", "0", ".", "0", ".", "2">>],
   [kind |-> "private", text |-> <<"1", "0", ".", "0", ".", "0", ".", "1">>],
   [kind |-> "private", text |-> <<"1", "7", "2", ".", "1", "6", ".", "0", ".", "1">>],
   [kind |-> "public", text |-> <<"1", "7", "2", ".", "3", "2", ".", "0", ".", "1">>],
   [kind |-> "private", text |-> <<"1", "9", "2", ".", "1", "6", "8", ".", "1", ".", "1">>],
   [kind |-> "link-local", text |-> <<"1", "6", "9", ".", "2", "5", "4", ".", "1", ".", "1">>],
   [kind |-> "multicast", text |-> <<"2", "2", "4", ".", "0", ".", "0", ".", "1">>],
   [kind |-> "public", text |-> <<"8", ".", "8", ".", "8", ".", "8">>],
   [kind |-> "public", text |-> <<"a", ".", "i", "o">>],
   [kind |-> "loopback", text |-> <<"[", ":", ":", "1", "]">>],
   [kind |-> "link-local", text |-> <<"[", "f", "e", "8", "0", ":", ":", "1", "]">>],
   [kind |-> "private", text |-> <<"[", "f", "c", "0", "0", ":", ":", "1", "]">>],
   [kind |-> "multicast", text |-> <<"[", "f", "f", "0", "2", ":", ":", "1", "]">>],
   [kind |-> "public", text |-> <<"[", "2", "6", "0", "6", ":", ":", "1", "]">>],
   [kind |-> "none", text |-> <<>>]}

Port == <<":", "8", "0", "8", "0">>
Path == <<"/", "i">>

\* URLs of every host, with and without a port; and some with another
\* scheme, with user info, with a leading blank, and blank ones
UrlRequests ==
  {[url |-> Str(s \o h.text \o p \o Path), fetchable |-> h.kind = "public"] :
     s \in {HttpPrefix, HttpsPrefix}, h \in Hosts, p \in {<<>>, Port}}
  \cup {[url |-> Str(s \o <<"a", ".", "i", "o">> \o Path), fetchable |-> FALSE] :
          s \in {<<"f", "t", "p", ":", "/", "/">>, <<"H", "T", "T", "P", ":", "/", "/">>, <<>>}}
  \cup {[url |-> Str(HttpPrefix \o <<"u", "@">> \o h.text \o Path), fetchable |-> h.kind = "public"] :
          h \in {g \in Hosts : g.text \in {<<"1", "0", ".", "0", ".", "0", ".", "1">>, <<"a", ".", "i", "o">>}}}
  \cup {[url |-> Str(<<" ">> \o HttpsPrefix \o h.text \o Path \o <<" ">>),
         fetchable |-> h.kind = "public"] :
          h \in {g \in Hosts : g.text \in {<<"1", "0", ".", "0", ".", "0", ".", "1">>, <<"a", ".", "i", "o">>}}}
  \cup {[url |-> Str(<<>>), fetchable |-> FALSE], [url |-> Str(<<" ">>), fetchable |-> FALSE]}

\* one URL request at a time: any of the URLs with valid parameters, and a
\* public URL with a metric or an edge mode that is not valid
NextUrl ==
  \/ \E q \in UrlRequests : UrlBegin(1, PyNone, Str(All), q.url)
  \/ UrlBegin(1, Str(Contrast), PyNone, Str(PublicUrl))
  \/ UrlBegin(1, PyNone, Str(Bogus), Str(PublicUrl))
  \/ \E x \in Remotes : UrlFinish(1, x)

SpecUrl == InitApi /\ [][NextUrl]_vars

\* handler h answered 400 and sent no request
RejectedUnfetched(h) ==
  h.pc = "done" /\ h.response.status = 400 /\ h.fetches = 0 /\ h.contents = PyNone

\* C20: a URL request with an invalid metric name, an invalid edge mode, an
\* empty URL, a scheme other than http:// and https://, or a host that is
\* localhost or a private, loopback, link-local or multicast address is
\* answered 400 and no request is sent for it
C20_NoFetchBeforeValidation ==
  \A r \in Reqs :
    LET h == req[r]
    IN h.endpoint = "url" =>
         /\ h.metrics = Str(Contrast) => RejectedUnfetched(h)
         /\ h.edge_mode = Str(Bogus) => RejectedUnfetched(h)
         /\ \A q \in UrlRequests :
              (h.url = q.url /\ ~q.fetchable) => RejectedUnfetched(h)

\* http://u@10.0.0.1/i, with a valid edge mode, was refused
C20_Witness ==
  \E r \in Reqs :
    /\ RejectedUnfetched(req[r])
    /\ req[r].metrics = PyNone /\ req[r].edge_mode = Str(All)
    /\ req[r].url = Str(HttpPrefix \o <<"u", "@">> \o <<"1", "0", ".", "0", ".", "0", ".", "1">> \o Path)


\* ============================================================ the download, chunk by chunk
\* validate_and_download_from_url as it runs: one step for the request and
\* the checks of the answer's headers, one for every chunk of the body, one
\* for what follows the loop.  call.cur.fed is the bytearray `contents`.
MaxBody == MaxFileSize + ChunkSize + ChunkSize   \* longest body a server sends

RECURSIVE BodiesOf(_)
BodiesOf(n) ==
  IF n = 0 THEN {<<>>}
  ELSE {<<>>} \cup {<<c>> \o b : c \in {"P", "x"}, b \in BodiesOf(n - 1)}

\* the answers of a server: the Content-Length header may be absent (-1),
\* true, or understate the body
Answers ==
  {[kind |-> k, status |-> 0, content_type |-> <<>>, body |-> <<>>, content_length |-> -1] :
     k \in {"timeout", "error"}}
  \cup UNION {
    {[kind |-> "response", status |-> st, content_type |-> ct, body |-> b, content_length |-> cl] :
       st \in {200, 404}, ct \in {ImagePng, TextHtml}, cl \in {-1, 1, Len(b)}} :
    b \in BodiesOf(MaxBody)}

Downloading == "validate_and_download_from_url"

\* a call has been begun and has neither returned nor raised
Pending == call.cur.fn # "none" /\ call.cur.result.type = "NoneType"

\* the loop of lines 157-167 has not been left
Streaming == call.cur.fn = Downloading /\ call.cur.result.type = "NoneType"

\* the part of the body that has not arrived
Unread ==
  LET body == call.cur.args[1].body
  IN SubSeq(body, Len(call.cur.fed.v) + 1, Len(body))

\* lines 97-154: the request is sent, status, content type and
\* Content-Length are checked, contents = bytearray()
DownloadBegin(remote) ==
  /\ ~Pending
  /\ call' = [call EXCEPT !.cur = [result |-> Answered(remote),
                                   fn |-> Downloading,
                                   args |-> <<remote>>,
                                   fed |-> Bytes(<<>>)]]
  /\ UNCHANGED <<cacheVars, req, settings>>

\* lines 157-167: one turn of the loop
StreamChunk ==
  /\ Streaming
  /\ Unread # <<>>
  /\ LET extended == call.cur.fed.v \o Chunk(Unread)
     IN call' = [call EXCEPT
          !.cur.fed = Bytes(extended),
          !.cur.result = IF Len(extended) > MaxFileSize THEN Http(413) ELSE PyNone]
  /\ UNCHANGED <<cacheVars, req, settings>>

\* lines 169-173: the body has ended
StreamEnd ==
  /\ Streaming
  /\ Unread = <<>>
  /\ call' = [call EXCEPT
       !.cur.result = IF Len(call.cur.fed.v) = 0 THEN Http(400)
                      ELSE Bytes(call.cur.fed.v)]
  /\ UNCHANGED <<cacheVars, req, settings>>

\* ------------------------------------------------------------ the upload, before and after the read
\* validate_image_upload as it runs: one step up to `await image.read()`,
\* one for what follows it.  call.cur.args is <<image.content_type>>,
\* call.cur.fed the bytes the read has given (PyNone: nothing was read).
Validating == "validate_image_upload"

IMAGE_PNG == <<"I", "M", "A", "G", "E", "/", "P", "N", "G">>

ContentTypes == {ImageJpeg, ImagePng, IMAGE_PNG, TextPlain, TextHtml, <<>>}

Reading == call.cur.fn = Validating /\ call.cur.result.type = "NoneType"

\* lines 22-30
UploadCheck(content_type) ==
  /\ ~Pending
  /\ call' = [call EXCEPT !.cur = [result |-> CheckContentType(content_type),
                                   fn |-> Validating,
                                   args |-> <<content_type>>,
                                   fed |-> PyNone]]
  /\ UNCHANGED <<cacheVars, req, settings>>

\* lines 33-50
UploadRead(body) ==
  /\ Reading
  /\ call' = [call EXCEPT !.cur.fed = Bytes(body), !.cur.result = CheckBody(body)]
  /\ UNCHANGED <<cacheVars, req, settings>>

\* the two ways in which the bytes of an image arrive, one call at a time
NextBytes ==
  \/ \E remote \in Answers : DownloadBegin(remote)
  \/ StreamChunk
  \/ StreamEnd
  \/ \E content_type \in ContentTypes : UploadCheck(content_type)
  \/ \E body \in BodiesOf(MaxBody) : UploadRead(body)

SpecBytes == InitKey /\ [][NextBytes]_vars

\* ------------------------------------------------------------ C21
\* what a download has ended with
Ended(c) == c.result.type # "NoneType"
TooLarge(c) == IsHttp(c.result) /\ c.result.v = 413

\* C21: validate_and_download_from_url enforces the byte cap while it
\* streams: once the buffer exceeds MAX_FILE_SIZE the download has ended
\* with 413 and nothing more is read, so the buffer never holds more than
\* MAX_FILE_SIZE plus one chunk; an empty body ends with 400; every value
\* returned is the body, between 1 and MAX_FILE_SIZE bytes long.
C21_CapWhileStreaming ==
  LET c      == call.cur
      buffer == c.fed.v
      body   == c.args[1].body
      read   == Answered(c.args[1]).type = "NoneType"
      whole  == Download(c.args[1])
  IN c.fn = Downloading =>
       /\ Len(buffer) <= MaxFileSize + ChunkSize
       /\ Len(buffer) > MaxFileSize => TooLarge(c)
       /\ TooLarge(c) /\ read =>
            /\ Len(buffer) > MaxFileSize
            /\ Len(buffer) - MaxFileSize <= ChunkSize
       /\ Ended(c) /\ ~TooLarge(c) /\ read =>
            /\ buffer = body
            /\ Len(body) <= MaxFileSize
            /\ IF Len(body) = 0 THEN IsHttp(c.result) /\ c.result.v = 400
               ELSE c.result.type = "bytes" /\ c.result.v = body
       /\ Ended(c) /\ ~Raised(c.result) => Len(c.result.v) \in 1..MaxFileSize
       /\ Ended(c) => c.result.type = whole.type /\ c.result.v = whole.v

\* a server understates the length of a body two chunks over the cap: the
\* download has ended with 413 while part of the body was still to come
C21_Witness ==
  /\ call.cur.fn = Downloading
  /\ TooLarge(call.cur)
  /\ call.cur.args[1].content_length \in {-1, 1}
  /\ Len(call.cur.fed.v) = MaxFileSize + ChunkSize
  /\ Len(call.cur.args[1].body) > Len(call.cur.fed.v)


\* ------------------------------------------------------------ C22
Status(c, code) == IsHttp(c.result) /\ c.result.v = code

\* C22: validate_image_upload rejects a content type other than image/jpeg
\* and image/png with 415 and reads no body; with an allowed type, a body
\* longer than MAX_FILE_SIZE gives 413 and an empty body 400; any other body
\* is returned unchanged, 1 to MAX_FILE_SIZE bytes long.
C22_UploadPrecedence ==
  LET c    == call.cur
      type == c.args[1]
      read == c.fed.type = "bytes"
  IN c.fn = Validating =>
       /\ type \notin {ImageJpeg, ImagePng} => Status(c, 415) /\ ~read
       /\ type \in {ImageJpeg, ImagePng} =>
            IF ~read THEN ~Ended(c)
            ELSE IF Len(c.fed.v) > MaxFileSize THEN Status(c, 413)
            ELSE IF Len(c.fed.v) = 0 THEN Status(c, 400)
            ELSE /\ c.result.type = "bytes"
                 /\ c.result.v = c.fed.v
                 /\ Len(c.result.v) \in 1..MaxFileSize

\* a body of the longest allowed length has been read and returned
C22_Witness ==
  /\ call.cur.fn = Validating
  /\ call.cur.args[1] = ImageJpeg
  /\ call.cur.result.type = "bytes"
  /\ Len(call.cur.result.v) = MaxFileSize


\* ============================================================ app/core/histogram.py
\* A luminance array is a sequence of rows of equal length.  Luminance values
\* are kept in tenths, so that fractional values exist: 253 is 25.3.
HISTOGRAM_BUCKETS == 10
LUMINANCE_MAX     == 255

\* luminance.flatten(), line 37
RECURSIVE Flatten(_)
Flatten(rows) == IF rows = <<>> THEN <<>> ELSE Head(rows) \o Flatten(Tail(rows))

\* str(n) of a natural number
RECURSIVE Format(_)
Format(n) ==
  LET digit == <<"0", "1", "2", "3", "4", "5", "6", "7", "8", "9">>[(n % 10) + 1]
  IN IF n < 10 THEN <<digit>> ELSE Format(n \div 10) \o <<digit>>

\* round(n / d) of Python 3: to the nearest integer, a tie to the even one
Round(n, d) ==
  LET q == n \div d
      r == n % d
  IN IF 2 * r < d THEN q
     ELSE IF 2 * r > d THEN q + 1
     ELSE IF q % 2 = 0 THEN q ELSE q + 1

\* line 34: bucket_size = (max_val + 1) / num_buckets, in tenths
BucketSize == ((LUMINANCE_MAX + 1) * 10) \div HISTOGRAM_BUCKETS

\* int((i + 1) * bucket_size) without the - 1 of line 47
BucketEndOpen(i) == ((i + 1) * BucketSize) \div 10

\* lines 46-47: start and end of bucket i (0-based), whole numbers
BucketStart(i) == (i * BucketSize) \div 10
BucketEnd(i) ==
  IF i = HISTOGRAM_BUCKETS - 1 THEN LUMINANCE_MAX
  ELSE ((i + 1) * BucketSize) \div 10 - 1

\* lines 50-54: the test a value (in tenths) passes to be counted in bucket i
InBucket(i, x) ==
  IF i = HISTOGRAM_BUCKETS - 1
    THEN x >= BucketStart(i) * 10 /\ x <= BucketEnd(i) * 10
  ELSE x >= BucketStart(i) * 10 /\ x < (i + 1) * BucketSize

\* np.sum(...) of lines 52 and 54, for every bucket
Counts(flat_luminance) ==
  [b \in 1..HISTOGRAM_BUCKETS |->
     Cardinality({k \in 1..Len(flat_luminance) : InBucket(b - 1, flat_luminance[k])})]

\* calculate_histogram, lines 17-63; percent is kept in tenths of a percent
CalculateHistogram(luminance) ==
  LET flat_luminance == Flatten(luminance)
      total_pixels   == Len(flat_luminance)
  IN IF total_pixels = 0 THEN <<>>
     ELSE [b \in 1..HISTOGRAM_BUCKETS |->
             [range   |-> Format(BucketStart(b - 1)) \o <<"-">> \o Format(BucketEnd(b - 1)),
              percent |-> Round(Counts(flat_luminance)[b] * 1000, total_pixels)]]

\* ============================================================ app/core/luminance.py
\* config.py, lines 28-30: the float64 nearest to the decimal written there
REC601_B == FDiv(FromInt(1140), 10000)

REC709_R == FDiv(FromInt(2126), 10000)
REC709_G == FDiv(FromInt(7152), 10000)
REC709_B == FDiv(FromInt(722), 10000)

\* calculate_luminance, lines 19-23, for one cell of rgb_array
CalculateLuminance(rgb) ==
  FPlus(FPlus(FTimes(REC709_R, rgb[1]), FTimes(REC709_G, rgb[2])),
        FTimes(REC709_B, rgb[3]))

\* luminance.mean() of line 36 for an array of a few cells: the cells are
\* added one after another and the sum is divided by their number
RECURSIVE Total(_)
Total(flat) ==
  IF flat = <<>> THEN Zero
  ELSE FPlus(Total(SubSeq(flat, 1, Len(flat) - 1)), flat[Len(flat)])

CalculateAverageLuminance(luminance) ==
  FDiv(Total(Flatten(luminance)), Len(Flatten(luminance)))

\* calculate_brightness_score, lines 52-63
CalculateBrightnessScore(average_luminance) ==
  RoundToInt(FTimes(FDiv(average_luminance, LUMINANCE_MAX), 100))

\* ------------------------------------------------------------ calculate_edge_luminance
\* numpy's slices of a sequence, for k >= 1: s[:k], s[-k:] and s[k:-k]
Upto(s, k)  == SubSeq(s, 1, IF k < Len(s) THEN k ELSE Len(s))
FromEnd(s, k) == SubSeq(s, (IF k < Len(s) THEN Len(s) - k ELSE 0) + 1, Len(s))
Whole(s, k) == s
Inner(s, k) == SubSeq(s, k + 1, Len(s) - k)

\* the same slices taken of the columns: luminance[:, :k] and so on
Columns(slice(_, _), luminance, k) ==
  [r \in 1..Len(luminance) |-> slice(luminance[r], k)]

\* int(side * 0.1) without the max(1, ...) of lines 89-90
TenthOf(side) == side \div 10

\* lines 89-90: max(1, int(side * 0.1))
EdgeSize(side) == IF side \div 10 < 1 THEN 1 ELSE side \div 10

\* calculate_edge_luminance, lines 66-134; luminance has at least one row
CalculateEdgeLuminance(luminance, edge_mode) ==
  LET height      == Len(luminance)
      width       == Len(luminance[1])
      edge_width  == EdgeSize(width)
      edge_height == EdgeSize(height)
      left_edge   == Columns(Upto, luminance, edge_width)
      right_edge  == Columns(FromEnd, luminance, edge_width)
  IN IF edge_mode = LeftRight
       THEN IntList(Flatten(left_edge) \o Flatten(right_edge))
     ELSE IF edge_mode = TopBottom
       THEN IntList(Flatten(Upto(luminance, edge_height))
                    \o Flatten(FromEnd(luminance, edge_height)))
     ELSE IF edge_mode = All
       THEN IntList(Flatten(left_edge) \o Flatten(right_edge)
                    \o Flatten(Columns(Inner, Upto(luminance, edge_height), edge_width))
                    \o Flatten(Columns(Inner, FromEnd(luminance, edge_height), edge_width)))
     ELSE Exc("ValueError")

\* ============================================================ the functions of app/core, one call each
MaxSide == 21      \* rows and columns of an array whose cells are told apart
MaxPixels == 3     \* cells of an image of one colour

\* the values of a colour channel that images of several colours take
Levels == {0, 1, 127, 128, 254, LUMINANCE_MAX}

\* an array of the given shape in which every cell has a value of its own
Numbered(height, width) ==
  [r \in 1..height |-> [c \in 1..width |-> (r - 1) * width + c]]

\* values next to the edges of the buckets, in tenths
NearEdges == {0, 249, 250, 255, 256, 509, 510, 512, 1280, 2299, 2300, 2304, 2550}

Arrays ==
  {<<>>, << <<>> >>}
  \cup {<< <<x>> >> : x \in 0..(LUMINANCE_MAX * 10)}
  \cup {<< <<x, y>> >> : x \in NearEdges, y \in NearEdges}
  \cup {<< <<x>>, <<y>> >> : x \in NearEdges, y \in NearEdges}

NotCalled == call.cur.fn = "none"

\* histogram = calculate_histogram(luminance); the counts of the buckets
\* are kept beside the result
HistogramCall(luminance) ==
  /\ NotCalled
  /\ call' = [call EXCEPT !.cur = [result |-> ListOf(CalculateHistogram(luminance)),
                                   fn |-> "calculate_histogram",
                                   args |-> <<luminance>>,
                                   fed |-> IntList(Counts(Flatten(luminance)))]]
  /\ UNCHANGED <<cacheVars, req, settings>>

\* edge_values = calculate_edge_luminance(luminance, edge_mode)
EdgeCall(luminance, edge_mode) ==
  /\ NotCalled
  /\ call' = [call EXCEPT !.cur = [result |-> CalculateEdgeLuminance(luminance, edge_mode),
                                   fn |-> "calculate_edge_luminance",
                                   args |-> <<luminance, edge_mode>>,
                                   fed |-> PyNone]]
  /\ UNCHANGED <<cacheVars, req, settings>>

\* luminance = calculate_luminance(rgb_array) for an image of `cells` cells
\* of one colour, then avg = calculate_average_luminance(luminance) and
\* calculate_brightness_score(avg), as in _process_image_bytes, lines 111-119
LuminanceCall(rgb, cells) ==
  /\ NotCalled
  /\ LET luminance == << [c \in 1..cells |-> CalculateLuminance(rgb)] >>
         avg       == CalculateAverageLuminance(luminance)
     IN call' = [call EXCEPT !.cur =
          [result |-> [average_luminance |-> avg,
                       brightness_score |-> CalculateBrightnessScore(avg)],
           fn |-> "calculate_luminance",
           args |-> <<rgb, cells>>,
           fed |-> ListOf(luminance[1])]]
  /\ UNCHANGED <<cacheVars, req, settings>>

\* the sides of the images that are resized
Sides == {1, 2, 100, 161, 322, 500, 501, 511, MAX_DIMENSION, 513, 561, 600, 644,
          800, 1000, 1024, 1500, 2000, 25088}

\* img = resize_image_if_needed(img), for an image of the given size
ResizeCall(size) ==
  /\ NotCalled
  /\ call' = [call EXCEPT !.cur = [result |-> IntList(ResizeImageIfNeeded(size)),
                                   fn |-> "resize_image_if_needed",
                                   args |-> <<size>>,
                                   fed |-> PyNone]]
  /\ UNCHANGED <<cacheVars, req, settings>>

NextCore ==
  \/ \E luminance \in Arrays : HistogramCall(luminance)
  \/ \E width \in Sides, height \in Sides : ResizeCall(<<width, height>>)
  \/ \E v \in 0..LUMINANCE_MAX, cells \in 1..MaxPixels : LuminanceCall(<<v, v, v>>, cells)
  \/ \E r \in Levels, g \in Levels, b \in Levels : LuminanceCall(<<r, g, b>>, 1)
  \/ \E height \in 1..MaxSide, width \in 1..MaxSide,
        edge_mode \in {LeftRight, TopBottom, All, Bogus} :
       EdgeCall(Numbered(height, width), edge_mode)

SpecCore == InitKey /\ [][NextCore]_vars

\* ------------------------------------------------------------ C23
\* the percentages of a histogram, in tenths of a percent
Percents(histogram) == [b \in 1..Len(histogram) |-> histogram[b].percent]

\* C23: on a luminance array that is not empty, calculate_histogram counts
\* every value in exactly one bucket: the counts of the buckets sum to the
\* number of cells and the percentages to 100, give or take the 2.0 the
\* tests allow for rounding.
C23_HistogramPartition ==
  LET c     == call.cur
      cells == Len(Flatten(c.args[1]))
  IN c.fn = "calculate_histogram" /\ cells > 0 =>
       /\ Len(c.result.v) = HISTOGRAM_BUCKETS
       /\ Sum(c.fed.v) = cells
       /\ Sum(Percents(c.result.v)) \in 980..1020


\* ------------------------------------------------------------ C24
\* no value occurs twice in s
Once(s) == \A i, j \in 1..Len(s) : s[i] = s[j] => i = j

EdgesOfAll(c) == c.fn = "calculate_edge_luminance" /\ c.args[2] = All

\* the claim as stated: for edge mode "all" every cell of an array with at
\* least one row and one column is among the edge values at most once, and
\* there is at least one edge value
C24_EachCellOnce ==
  EdgesOfAll(call.cur) => Once(call.cur.result.v) /\ Len(call.cur.result.v) > 0

\* C24: for edge mode "all" the edge values of an array with at least one
\* row and one column are never empty; a cell is among them twice exactly
\* when the array has a single column (the left and the right strip are the
\* same column) or a single row and three or more columns (the top and the
\* bottom strip are the same row); with two or more rows and columns,
\* every cell is there at most once.
C24_EachCellOnceAmended ==
  LET c      == call.cur
      height == Len(c.args[1])
      width  == Len(c.args[1][1])
  IN EdgesOfAll(c) =>
       /\ Len(c.result.v) > 0
       /\ Once(c.result.v) <=> ~(width = 1 \/ (height = 1 /\ width >= 3))
       /\ height >= 2 /\ width >= 2 => Once(c.result.v)

\* an array wide and high enough for strips of two columns and two rows:
\* the four strips together are the frame of the array
C24_Witness ==
  /\ EdgesOfAll(call.cur)
  /\ Len(call.cur.args[1]) = 20
  /\ Len(call.cur.args[1][1]) = 20
  /\ Len(call.cur.result.v) = 20 * 20 - 16 * 16
  /\ Once(call.cur.result.v)


\* ------------------------------------------------------------ C25
\* response d reports the size the table gives for the bytes of the image
ReportsSizeOf(d, bytes) ==
  \A p \in Pictures \cup {[size |-> <<1, 1>>, bytes |-> <<"P">>]} :
    bytes = p.bytes => d["width"] = p.size[1] /\ d["height"] = p.size[2]

Lit(c) == c.fn = "calculate_luminance"

Uniform(c) == Lit(c) /\ c.args[1][1] = c.args[1][2] /\ c.args[1][2] = c.args[1][3]

\* 2^-44
Tolerance == Pow2(Scale - 44)

\* |x - v| <= 2^-44
Near(x, v) == Leq(x, Plus(FromInt(v), Tolerance)) /\ Leq(FromInt(v), Plus(x, Tolerance))

\* the luminance of every cell is at most 255 (a value is never negative);
\* the score of a uniform image is round(v / 255 * 100) of the real numbers
InRangeAndScored(c) ==
  /\ \A i \in 1..Len(c.fed.v) : Leq(c.fed.v[i], FromInt(LUMINANCE_MAX))
  /\ Uniform(c) =>
       LET v == c.args[1][1]
       IN /\ c.result.brightness_score = Round(v * 100, LUMINANCE_MAX)
          /\ c.result.brightness_score \in 0..100
          /\ v = 0 => c.result.brightness_score = 0
          /\ v = LUMINANCE_MAX => c.result.brightness_score = 100
          /\ v = 128 => c.result.brightness_score \in 49..51

C27_GenericInternalError ==
  \A r \in Reqs :
    req[r].response.status = 500 =>
      /\ req[r].response.body["error"] = "Internal server error"
      /\ DOMAIN req[r].response.body = {"error"}


\* ============================================================ the cache, continued
\* ------------------------------------------------------------ C28
\* the keys the store maps to an entry
StoredKeys == {store[i].key : i \in DOMAIN store}

\* C28: in every reachable state of the cache, between and inside the calls
\* of get, set and clear, the recency ordering is as long as the map is
\* large, and every stored key is in the ordering exactly once.
C28_OrderingMatchesMap ==
  /\ Len(store) = Cardinality(StoredKeys)
  /\ \A k \in StoredKeys : Cardinality({i \in DOMAIN store : store[i].key = k}) = 1

\* every key has been set, a get has just missed on a key that was set
\* before (it was evicted or it expired), and the store holds two keys
C28_Witness ==
  /\ everSet = Keys
  /\ last.op = "get" /\ ~last.hit /\ last.key \in everSet
  /\ Len(store) = 2
  /\ \A t \in Threads : ~InCall(t)

\* ------------------------------------------------------------ C29
\* C29: with max_size = 1, a set of a key other than the one stored leaves
\* the cache holding the new key and nothing else.
C29_SizeOneEvicts ==
  \A t \in Threads :
    (/\ pc[t] = "s_rel"
     /\ max_size = 1
     /\ Len(snap.store) = 1
     /\ snap.store[1].key # key[t])
    => /\ KeysOf(store) = <<key[t]>>
       /\ Now0 = <<Entry(key[t], snap.t, snap.val)>>

\* max_size = 1, the store held key 1 and set(2) leaves key 2 alone
C29_Witness ==
  \E t \in Threads :
    /\ pc[t] = "s_rel" /\ max_size = 1 /\ key[t] = 2
    /\ KeysOf(snap.store) = <<1>>
    /\ KeysOf(store) = <<2>>

\* ------------------------------------------------------------ C30
\* the labels inside the `with self._lock:` blocks of get, set, clear, size
Inside ==
  {"g113", "g115", "g116", "g118", "g121", "g122", "g_rel"} \cup SetPcs
  \cup {"c151", "c_rel", "z157", "z_rel"}

\* C30: the lock is held only inside get, set, clear and size: a caller that
\* is outside these calls (reading, downloading, decoding, computing its
\* result dict) does not hold it, the holder is always inside one of the
\* four with-blocks, and when no caller is inside a call the lock is free,
\* so that any caller can enter.
C30_LockOnlyInsideCalls ==
  /\ \A t \in Threads : pc[t] = "idle" => lock # t
  /\ lock # 0 => pc[lock] \in Inside
  /\ (\A t \in Threads : pc[t] = "idle") => LockAvailable

\* one caller is inside set and holds the lock while another, outside the
\* cache, has built a result dict after that caller's get returned to it
C30_Witness ==
  \E t, u \in Threads :
    /\ t # u
    /\ pc[t] = "s143" /\ lock = t
    /\ pc[u] = "idle" /\ held[u] # 0
    /\ last.op = "get" /\ ~last.hit


\* ------------------------------------------------------------ C31
\* the labels the claim lists, 0-24, 25-50, ..., 230-255
Labels ==
  << <<"0", "-", "2", "4">>, <<"2", "5", "-", "5", "0">>,
     <<"5", "1", "-", "7", "5">>, <<"7", "6", "-", "1", "0", "1">>,
     <<"1", "0", "2", "-", "1", "2", "7">>, <<"1", "2", "8", "-", "1", "5", "2">>,
     <<"1", "5", "3", "-", "1", "7", "8">>, <<"1", "7", "9", "-", "2", "0", "3">>,
     <<"2", "0", "4", "-", "2", "2", "9">>, <<"2", "3", "0", "-", "2", "5", "5">> >>

\* floor(i * 256 / 10)
Floor256(i) == (i * (LUMINANCE_MAX + 1)) \div HISTOGRAM_BUCKETS

\* int(i * bucket_size) of lines 46-47 as float64 computes it
FloatEdge(i) ==
  IntegerPart(FTimes(FDiv(FromInt(LUMINANCE_MAX + 1), HISTOGRAM_BUCKETS), i))

\* C31: the range labels of a histogram are start_i = floor(i * 256 / 10)
\* and end_i = floor((i + 1) * 256 / 10) - 1 for i < 9, end_9 = 255, that
\* is 0-24, 25-50, ..., 230-255: the first starts at 0, the last ends at
\* 255, each starts one above the end before it; a grid that is not empty
\* gets exactly 10 buckets and an empty grid gets an empty list.  The
\* edges are those float64 arithmetic gives.
C31_RangeLabels ==
  LET c == call.cur
  IN c.fn = "calculate_histogram" =>
       /\ Flatten(c.args[1]) = <<>> => c.result.v = <<>>
       /\ Flatten(c.args[1]) # <<>> =>
            /\ Len(c.result.v) = 10
            /\ \A b \in 1..10 :
                 /\ c.result.v[b].range = Labels[b]
                 /\ c.result.v[b].range =
                      Format(Floor256(b - 1)) \o <<"-">>
                      \o Format(IF b = 10 THEN 255 ELSE Floor256(b) - 1)
                 /\ FloatEdge(b - 1) = Floor256(b - 1)
                 /\ b > 1 => BucketStart(b - 1) = BucketEnd(b - 2) + 1
            /\ BucketStart(0) = 0 /\ BucketEnd(9) = 255

\* a grid of two cells got its ten labels, the second of them 25-50
C31_Witness ==
  /\ call.cur.fn = "calculate_histogram"
  /\ Len(Flatten(call.cur.args[1])) = 2
  /\ Len(call.cur.result.v) = 10
  /\ call.cur.result.v[2].range = <<"2", "5", "-", "5", "0">>

\* the histogram of an empty grid is the empty list
C31_WitnessEmpty ==
  /\ call.cur.fn = "calculate_histogram"
  /\ call.cur.args[1] = << <<>> >>
  /\ call.cur.result.v = <<>>


\* ------------------------------------------------------------ C32
\* max(1, floor(n / 10))
AtLeastOneTenth(n) == IF n \div 10 >= 1 THEN n \div 10 ELSE 1

\* int(side * 0.1) of lines 89-90 as float64 computes it
FloatTenth(side) == IntegerPart(FTimes(FDiv(FromInt(1), 10), side))

\* C32: for a grid of H rows and W columns (H, W >= 1)
\* calculate_edge_luminance returns 2 * H * max(1, floor(W / 10)) values
\* in mode left_right and 2 * W * max(1, floor(H / 10)) values in mode
\* top_bottom, and raises ValueError for a mode other than left_right,
\* top_bottom and all.  int(side * 0.1) in float64 is floor(side / 10).
C32_EdgeCounts ==
  LET c == call.cur
      H == Len(c.args[1])
      W == Len(c.args[1][1])
  IN c.fn = "calculate_edge_luminance" =>
       /\ c.args[2] = LeftRight =>
            c.result.type = "list[int]" /\ Len(c.result.v) = 2 * H * AtLeastOneTenth(W)
       /\ c.args[2] = TopBottom =>
            c.result.type = "list[int]" /\ Len(c.result.v) = 2 * W * AtLeastOneTenth(H)
       /\ c.args[2] = All => c.result.type = "list[int]"
       /\ c.args[2] \notin {LeftRight, TopBottom, All} => c.result.type = "ValueError"
       /\ FloatTenth(H) = H \div 10 /\ FloatTenth(W) = W \div 10

\* a grid of 3 rows and 20 columns gave 2 * 3 * 2 = 12 values in mode left_right
C32_Witness ==
  /\ call.cur.fn = "calculate_edge_luminance"
  /\ call.cur.args[2] = LeftRight
  /\ Len(call.cur.args[1]) = 3 /\ Len(call.cur.args[1][1]) = 20
  /\ Len(call.cur.result.v) = 12


\* ------------------------------------------------------------ C33
Resizing(c) == c.fn = "resize_image_if_needed"

Longer(size)  == IF size[1] > size[2] THEN size[1] ELSE size[2]
Shorter(size) == IF size[1] > size[2] THEN size[2] ELSE size[1]

\* floor(shorter * 512 / longer)
FloorScaled(size) == (Shorter(size) * MAX_DIMENSION) \div Longer(size)

\* the image is returned as it is when neither side exceeds 512; otherwise
\* the longer side becomes 512 (the height when the sides are equal) and
\* the other side is one of `shorter`; both sides are in 1..512
ResizedTo(c, shorter) ==
  LET size == c.args[1]
      new  == c.result.v
  IN /\ new[1] \in 1..MAX_DIMENSION /\ new[2] \in 1..MAX_DIMENSION
     /\ Longer(size) <= MAX_DIMENSION => new = size
     /\ Longer(size) > MAX_DIMENSION =>
          /\ Longer(new) = MAX_DIMENSION
          /\ IF size[1] > size[2] THEN new[1] = MAX_DIMENSION /\ new[2] \in shorter
             ELSE new[2] = MAX_DIMENSION /\ new[1] \in shorter

AtLeastOne(n) == IF n < 1 THEN 1 ELSE n

\* the claim as stated: the shorter side of a resized image is
\* floor(shorter * 512 / longer), but at least 1
C33_ResizeFloor ==
  Resizing(call.cur) =>
    ResizedTo(call.cur, {AtLeastOne(FloorScaled(call.cur.args[1]))})

\* C33: resize_image_if_needed returns the image unchanged when both sides
\* are at most 512; otherwise the longer side of the result is exactly 512
\* and the shorter side is floor(shorter * 512 / longer), or one less than
\* that when shorter * 512 / longer is a whole number that float64 falls
\* short of, but at least 1; both sides of the result lie in 1..512.
C33_ResizeFloorOrOneLess ==
  Resizing(call.cur) =>
    LET size  == call.cur.args[1]
        whole == (Shorter(size) * MAX_DIMENSION) % Longer(size) = 0
    IN ResizedTo(call.cur,
                 {AtLeastOne(FloorScaled(size))}
                 \cup (IF whole THEN {AtLeastOne(FloorScaled(size) - 1)} ELSE {}))

\* an image of 644 by 322 became 512 by 255, and 322 * 512 / 644 is 256
C33_Witness ==
  /\ Resizing(call.cur)
  /\ call.cur.args[1] = <<644, 322>>
  /\ call.cur.result.v = <<512, 255>>


\* ------------------------------------------------------------ C34
GetPcs == {"g113", "g115", "g116", "g118", "g121", "g122", "g_rel"}

\* the entries of a store, position left aside
EntriesOf(s) == {s[i] : i \in DOMAIN s}

\* C34: get(k) never changes a stored value or timestamp and never adds an
\* entry: at every point of the call the entries are among those it found.
\* When it returns, a hit has only moved k to the most-recently-used end, a
\* read of an expired entry has only removed k, and a miss has changed
\* nothing.  A hit does not extend k's life: after a hit, a get(k) at a
\* clock reading more than ttl after the entry's timestamp, which is still
\* the one its set gave it, is absent.
C34_GetFrame ==
  \A t \in Threads :
    /\ pc[t] \in GetPcs => EntriesOf(Now0) \subseteq EntriesOf(snap.store)
    /\ pc[t] = "g_rel" =>
         /\ Present(t) =>
              /\ Contains(snap.store, key[t])
              /\ Now0 = Without(snap.store, key[t]) \o <<GetItem(snap.store, key[t])>>
         /\ (Absent(t) /\ Contains(snap.store, key[t])) =>
              Now0 = Without(snap.store, key[t])
         /\ ~Contains(snap.store, key[t]) => (Absent(t) /\ Now0 = snap.store)
         /\ (/\ last.op = "get" /\ last.hit /\ last.key = key[t]
             /\ Contains(snap.store, key[t])
             /\ snap.t - GetItem(snap.store, key[t]).ts > ttl) => Absent(t)

\* a key is read and found, and read again more than ttl after its set: the
\* second read finds it expired and removes it, the other entry stays
C34_Witness ==
  \E t \in Threads :
    /\ pc[t] = "g_rel" /\ Absent(t)
    /\ last.op = "get" /\ last.hit /\ last.key = key[t]
    /\ Contains(snap.store, key[t])
    /\ Len(snap.store) = 2 /\ Len(store) = 1


\* ------------------------------------------------------------ C35
\* the entry of s is past its ttl at the clock reading t
Stale(e, t) == Expired(t, e.ts, ttl)

\* an entry leaves the store only in the del of a get of its key, in the
\* popitem of a set when it is the first entry, and in clear; the passing
\* of time removes nothing
LeavesOnlyWhenReadOrHead ==
  \A k \in Keys :
    (Contains(store, k) /\ ~Contains(store', k)) =>
      \E t \in Threads :
        \/ pc[t] = "g118" /\ key[t] = k
        \/ pc[t] = "s146" /\ store[1].key = k
        \/ pc[t] = "c151"

\* size counts the entries past their ttl, and a set that overflows evicts
\* the first entry whether or not it is past its ttl, and no other
CountedAndEvictedByRecency ==
  \A t \in Threads :
    /\ pc[t] = "z_rel" => ret[t] = IntRet(Len(snap.store)) /\ Now0 = snap.store
    /\ pc[t] = "g_rel" =>
         \A e \in EntriesOf(snap.store) : e.key # key[t] => e \in EntriesOf(Now0)
    /\ (/\ pc[t] = "s_rel"
        /\ ~Contains(snap.store, key[t])
        /\ max_size >= 1
        /\ Len(snap.store) = max_size) =>
         /\ ~Contains(store, snap.store[1].key)
         /\ \A i \in 2..Len(snap.store) : snap.store[i] \in EntriesOf(Now0)

\* C35: expiry is lazy and per key: time passing removes nothing; an
\* expired entry stays, is counted by size and takes up capacity until a
\* get of its key removes it or it is evicted as the first (least recently
\* used) entry (or the cache is cleared); set evicts by recency only, so
\* it can evict an entry that is not expired while expired ones stay.
C35_LazyExpiry == []CountedAndEvictedByRecency /\ [][LeavesOnlyWhenReadOrHead]_vars

\* set of a third key on a full store of two: the first entry, not expired,
\* was evicted and the second, expired, is still stored
C35_Witness ==
  \E t \in Threads :
    /\ pc[t] = "s_rel" /\ max_size = 2 /\ Len(snap.store) = 2
    /\ ~Contains(snap.store, key[t])
    /\ ~Stale(snap.store[1], snap.t) /\ Stale(snap.store[2], snap.t)
    /\ ~Contains(store, snap.store[1].key)
    /\ Contains(store, snap.store[2].key)
    /\ Stale(GetItem(store, snap.store[2].key), now)


SameRequestTwice(r, q) ==
  /\ r # q
  /\ req[r].pc = "done" /\ req[q].pc = "done"
  /\ Validated(req[r]) /\ Decodable(req[r].contents)
  /\ req[q].contents = req[r].contents
  /\ req[q].requested_metrics = req[r].requested_metrics
  /\ req[q].validated_edge_mode = req[r].validated_edge_mode

\* C37: requests are not coalesced: of two requests with the same cache key
\* in progress together on a cache that lacks the key, each is answered
\* 200; one that looked the key up before it was stored has missed,
\* analysed the image itself and reports cached = false; and whatever the
\* interleaving the cache then holds exactly one entry for the key, the
\* result of the analysis.
C37_NoCoalescing ==
  \A r, q \in Reqs :
    SameRequestTwice(r, q) =>
      LET h == req[r]
          k == ComputeCacheKey(h.requested_metrics, h.validated_edge_mode, h.contents, PyNone)
      IN /\ h.response.status = 200
         /\ h.lookups = 1
         /\ h.response.body["cached"] = (h.analyses = 0)
         /\ Cardinality({i \in DOMAIN store : store[i].key = k}) = 1
         /\ \A i \in DOMAIN store :
              store[i].key = k =>
                store[i].val = MarkFresh(ProcessImageBytes(h.contents, h.requested_metrics,
                                                           h.validated_edge_mode))


\* ============================================================ the handler once its key is assigned
\* Requests for a few images and metric sets, one after another, each served
\* by lines 297-334 with the key the documentation of compute_cache_key
\* gives it (content, metric set, edge mode); the clock advances in between.
ServedImages == {Bytes(<<"P">>), Bytes(<<"P", "w">>), Bytes(<<"x">>)}

ServedMetrics == {SetOf(<<Brightness>>), SetOf(<<Median>>)}

ServeCall(contents, requested_metrics, elapsed) ==
  LET cache_key == ComputeCacheKey(requested_metrics, PyNone, contents, PyNone)
      out       == ServeWithKey(store, cache_key, contents, requested_metrics, PyNone,
                                elapsed, now, max_size, ttl, TRUE)
  IN /\ store' = out.store
     /\ call' = [call EXCEPT !.cur = [result |-> out.response,
                                      fn |-> "analyze_image",
                                      args |-> <<contents, requested_metrics, elapsed>>,
                                      fed |-> cache_key]]
     /\ UNCHANGED <<lock, max_size, ttl, now, heap, pc, key, held, loc, ret, snap, last,
                    everSet, req, settings>>

NextServe ==
  \/ Tick
  \/ \E c \in ServedImages, m \in ServedMetrics, elapsed \in 0..MaxTime :
       elapsed <= now /\ ServeCall(c, m, elapsed)

SpecServe == InitKey /\ [][NextServe]_vars

\* ------------------------------------------------------------ C38
\* the handler has just answered a request with a result
Answered200 == call.cur.fn = "analyze_image" /\ call.cur.result.status = 200

\* every stored value has cached = False and no processing_time_ms; a
\* response has both, cached = True exactly when the call analysed nothing,
\* and the processing time of this request
SnapshotsUnstamped ==
  /\ \A i \in DOMAIN store :
       /\ "cached" \in DOMAIN store[i].val /\ store[i].val["cached"] = FALSE
       /\ "processing_time_ms" \notin DOMAIN store[i].val
  /\ Answered200 =>
       /\ {"cached", "processing_time_ms"} \subseteq DOMAIN call.cur.result.body
       /\ call.cur.result.body["processing_time_ms"] = call.cur.args[3]

\* a hit leaves every stored value and timestamp as it was
HitKeepsSnapshots ==
  (call' # call /\ call'.cur.result.status = 200 /\ call'.cur.result.body["cached"]) =>
    /\ EntriesOf(store') = EntriesOf(store)
    /\ \E i \in DOMAIN store :
         /\ store[i].key = call'.cur.fed
         /\ \A f \in DOMAIN store[i].val \ {"cached"} :
              call'.cur.result.body[f] = store[i].val[f]

SettingsCacheOff == [CACHE_ENABLED |-> FALSE]

InitOff ==
  /\ CacheUnused
  /\ req = [r \in Reqs |-> Idle]
  /\ call = NoCalls
  /\ settings = SettingsCacheOff

SpecOff == InitOff /\ [][NextApi]_vars

\* ------------------------------------------------------------ C39
\* no request reads or writes the cache: no lookup is counted, no call of a
\* cache method is in progress, and the store is as it was built
CacheUntouched ==
  /\ store = <<>>
  /\ lock = 0
  /\ \A t \in Threads : pc[t] = "idle"
  /\ \A r \in Reqs : req[r].lookups = 0

\* C39: when CACHE_ENABLED is False no request reads or writes the cache,
\* whose contents never change; a request whose image decodes is answered
\* 200, and every successful response carries cached = False and
\* processing_time_ms.
C39_CacheDisabled ==
  ~settings.CACHE_ENABLED =>
    /\ CacheUntouched
    /\ \A r \in Reqs :
         req[r].pc = "done" =>
           /\ (Validated(req[r]) /\ Decodable(req[r].contents)) =>
                req[r].response.status = 200 /\ req[r].analyses = 1
           /\ req[r].response.status = 200 =>
                /\ req[r].response.body["cached"] = FALSE
                /\ "processing_time_ms" \in DOMAIN req[r].response.body
                /\ req[r].response.body["processing_time_ms"] \in 0..(now - req[r].start_time)

\* the cache is off and the same image was uploaded and analysed twice: the
\* second answer says cached = False as the first did
C39_Witness ==
  /\ ~settings.CACHE_ENABLED
  /\ \A r \in Reqs :
       /\ req[r].pc = "done" /\ req[r].endpoint = "upload"
       /\ req[r].response.status = 200
       /\ req[r].response.body["cached"] = FALSE
       /\ req[r].analyses = 1
       /\ req[r].contents = req[1].contents
       /\ req[r].requested_metrics = req[1].requested_metrics
       /\ req[r].validated_edge_mode = req[1].validated_edge_mode


\* ============================================================ the callers and the lock
\* The calls of the cache with the wait for the lock made a step of its own:
\* a caller reaches `with self._lock:` (lines 112, 140, 150, 156), waits
\* there while another caller is inside, and enters when the lock is free.
NLiveKeys == 2      \* keys the waiting callers use
LiveCap   == 1      \* max_size of the cache they share
LiveTtl   == 0      \* ttl_seconds of the cache they share

LiveKeys == 1..NLiveKeys
WaitPcs  == {"g112", "s140", "c150", "z156"}
BodyOf(label) ==
  CASE label = "g112" -> "g113"
    [] label = "s140" -> "s141"
    [] label = "c150" -> "c151"
    [] label = "z156" -> "z157"

Waiting(t) == pc[t] \in WaitPcs

InitLive ==
  /\ store = <<>>
  /\ lock = 0
  /\ max_size = LiveCap
  /\ ttl = LiveTtl
  /\ now = 0
  /\ heap = [o \in Objs |-> 0]
  /\ pc = [t \in Threads |-> "idle"]
  /\ key = [t \in Threads |-> 0]
  /\ held = [t \in Threads |-> 0]
  /\ loc = [t \in Threads |-> NoLoc]
  /\ ret = [t \in Threads |-> None]
  /\ snap = NoSnap
  /\ last = NoLast
  /\ everSet = {}
  /\ req = <<>>
  /\ call = <<>>
  /\ settings = Settings

\* the call of a method, up to `with self._lock:`
Arrive(t, label, k) ==
  /\ pc[t] = "idle"
  /\ label = "s140" => held[t] # 0
  /\ pc' = [pc EXCEPT ![t] = label]
  /\ key' = [key EXCEPT ![t] = k]
  /\ UNCHANGED <<req, call, settings, store, lock, max_size, ttl, now, heap, held, loc, ret, snap, last, everSet>>

\* self._lock.__enter__(): the waiting caller acquires the lock
Acquire(t) ==
  /\ Waiting(t)
  /\ LockAvailable
  /\ lock' = t
  /\ pc' = [pc EXCEPT ![t] = BodyOf(pc[t])]
  /\ held' = IF pc[t] = "g112" THEN [held EXCEPT ![t] = 0] ELSE held
  /\ heap' = Collect(heap, Live(store, held', loc, ret))
  /\ snap' = [t |-> -1,
              store |-> View(store, heap),
              val |-> IF pc[t] = "s140" THEN heap[held[t]] ELSE 0]
  /\ UNCHANGED <<req, call, settings, store, max_size, ttl, now, key, loc, ret, last, everSet>>

\* the statements a caller executes while it holds the lock, the release included
UnderLock(t) ==
  \/ Get113(t) \/ Get115(t) \/ Get116(t) \/ Get118(t) \/ Get121(t) \/ Get122(t)
  \/ Set141(t) \/ Set142(t) \/ Set143(t) \/ Set145(t) \/ Set146(t)
  \/ Clear151(t) \/ Size157(t)
  \/ Release(t)

NextLive ==
  \/ Tick
  \/ \E t \in Threads : NewDict(t, 1)
  \/ \E t \in Threads, k \in LiveKeys : Arrive(t, "g112", k)
  \/ \E t \in Threads, k \in LiveKeys : Arrive(t, "s140", k)
  \/ \E t \in Threads : Arrive(t, "c150", 0)
  \/ \E t \in Threads : Arrive(t, "z156", 0)
  \/ \E t \in Threads : Acquire(t)
  \/ \E t \in Threads : UnderLock(t)

\* Scheduling: a thread that can execute its next statement is eventually
\* run (weak fairness of the statements inside the lock), and a waiting
\* caller that finds the lock free again and again eventually gets it
\* (strong fairness of the acquisition). Nothing obliges a caller to call,
\* or the clock to advance.
FairLive == \A t \in Threads : WF_vars(UnderLock(t)) /\ SF_vars(Acquire(t))

SpecLive == InitLive /\ [][NextLive]_vars /\ FairLive

\* ------------------------------------------------------------ C40
\* the lock is held by the callers inside a method and by no one else
HeldInsideOnly == \A t \in Threads : lock = t <=> (pc[t] # "idle" /\ ~Waiting(t))

\* while a call is pending, some caller can take a step
NoDeadlock == (\E t \in Threads : pc[t] # "idle") => ENABLED (\E t \in Threads : Acquire(t) \/ UnderLock(t))

\* C40: every call of get, set, clear and size returns and leaves the lock
\* free on each of its paths; a caller that waits for the lock acquires it,
\* provided the threads are scheduled fairly; and the callers never
\* deadlock.
C40_LockLiveness ==
  /\ []HeldInsideOnly
  /\ []NoDeadlock
  /\ \A t \in Threads : Waiting(t) ~> (lock = t)
  /\ \A t \in Threads : (lock = t) ~> (lock # t /\ pc[t] = "idle")
  /\ \A t \in Threads : (pc[t] # "idle") ~> (pc[t] = "idle")

\* a caller waits for the lock while the other is about to evict the oldest
\* entry, after an expired entry was removed by a get
C40_Witness ==
  \E t, u \in Threads :
    /\ Waiting(t)
    /\ lock = u /\ pc[u] = "s146"
    /\ now > 0


=============================================================================
